---- MODULE Spec2Model ----
(***************************************************************************)
(* A model of the Mython lexer (src/mython/lexer.cpp, lexer.h) and of the  *)
(* runtime / evaluator (src/mython/runtime.cpp, statement.cpp).            *)
(*                                                                         *)
(* LexSpec   : the Lexer object over a character stream.                   *)
(* ClassSpec : Class::GetMethod over class hierarchies.                    *)
(* EvalSpec  : statements executed one after another in one Closure.       *)
(* BodySpec    : method bodies and the Return unwinding.                   *)
(* ScopeSpec   : ClassInstance::Call and the scope of a method.            *)
(* DispatchSpec: MethodCall over receivers of every kind.                  *)
(* NewSpec     : NewInstance with and without __init__.                    *)
(* TopSpec     : a Compound with a Return outside any method.              *)
(* CompareSpec : Equal, Less and the derived comparators.                  *)
(* LogicSpec   : Or, And and Not.                                          *)
(* TruthSpec   : IsTrue and IfElse.                                        *)
(* PrintSpec   : Print.                                                    *)
(* ArithSpec   : Sub, Mult and Div.                                        *)
(* ExpectSpec  : Lexer::Expect and Lexer::ExpectNext.                      *)
(* AliasSpec   : two names of one instance.                                *)
(***************************************************************************)
EXTENDS Integers, Sequences, FiniteSets, TLC

(***************************************************************************)
(* Bounds of the model.                                                    *)
(***************************************************************************)
\* the number of physical lines of a source text
MaxLines == 3
\* ParseLine is not started any more once the buffer holds this many Eof tokens
MaxEofs == 2

VARIABLES
    src,          \* the whole source text handed to the Lexer (never changes)
    input_,       \* Lexer::input_: the characters of the stream not yet consumed
    tokens_,      \* Lexer::tokens_
    cur_token_,   \* Lexer::cur_token_ (0-based, as in the code)
    cur_indent_,  \* Lexer::cur_indent_
    constructed,  \* the constructor has returned normally
    op,           \* the operation performed last: "none", "Lexer", "NextToken"
    status,       \* "ok", or "LexerError" when the last operation threw
    errmsg,       \* what() of the exception thrown by the last operation
    ret,          \* the token the last operation returned
    hist,         \* every line LineOfCode has tokenized so far, in order
    eof_returned, \* some operation has returned an Eof token
    thrown,       \* some operation has thrown
    \* ---- the runtime ----
    classes,      \* the runtime::Class objects, a class before its children
    query,        \* the last call of Class::GetMethod: [cls, name, found]
    heap,         \* the runtime::ClassInstance objects ever created
    globals,      \* the Closure the top-level statements are executed in
    output,       \* what was written to Context::GetOutputStream()
    next_id,      \* the number NewInstanceId() returns next
    executed,     \* what the last step executed, with its inputs
    result,       \* the ObjectHolder the last step returned
    outcome,      \* how the last step ended: "value", "error", "return", "undefined"
    what,         \* what() of the exception the last step threw
    steps,        \* the number of steps taken
    unowned_self  \* a method was run on an instance that no holder owned

lexvars == <<src, input_, tokens_, cur_token_, cur_indent_, constructed, op,
             status, errmsg, ret, hist, eof_returned, thrown>>

rtvars == <<classes, query, heap, globals, output, next_id, executed, result,
            outcome, what, steps, unowned_self>>

vars == <<lexvars, rtvars>>

(***************************************************************************)
(* Characters and the stream.                                              *)
(***************************************************************************)
NL == "\n"
SP == " "
HASH == "#"
\* what istream::peek() and get() return at the end of the stream
EOF == "EOF"

Digits == <<"0", "1", "2", "3", "4", "5", "6", "7", "8", "9">>

isdigit(ch) == \E i \in 1..Len(Digits) : Digits[i] = ch

isalpha(ch) == ch \in {"a", "b", "c", "d", "e", "f", "g", "h", "i", "j", "k", "l", "m",
                       "n", "o", "p", "q", "r", "s", "t", "u", "v", "w", "x", "y", "z",
                       "A", "B", "C", "D", "E", "F", "G", "H", "I", "J", "K", "L", "M",
                       "N", "O", "P", "Q", "R", "S", "T", "U", "V", "W", "X", "Y", "Z"}

peek(inp) == IF inp = <<>> THEN EOF ELSE Head(inp)

\* the stream after one get(); a get() at the end of the stream consumes nothing
\* and leaves the stream failed, so that every later unget() does nothing
AfterGet(inp) == IF inp = <<>> THEN <<>> ELSE Tail(inp)

(***************************************************************************)
(* Tokens: a kind, and the payload of the four valued kinds.               *)
(***************************************************************************)
Tok(type) == [type |-> type, num |-> 0, str |-> ""]
NumberTok(n) == [type |-> "Number", num |-> n, str |-> ""]
IdTok(s) == [type |-> "Id", num |-> 0, str |-> s]
StringTok(s) == [type |-> "String", num |-> 0, str |-> s]
CharTok(c) == [type |-> "Char", num |-> 0, str |-> c]

Indent == Tok("Indent")
Dedent == Tok("Dedent")
Newline == Tok("Newline")
Eof == Tok("Eof")

Keywords == {"class", "return", "if", "else", "def", "print", "and", "or", "not",
             "None", "True", "False"}

KeywordType(s) ==
    CASE s = "class" -> "Class"
      [] s = "return" -> "Return"
      [] s = "if" -> "If"
      [] s = "else" -> "Else"
      [] s = "def" -> "Def"
      [] s = "print" -> "Print"
      [] s = "and" -> "And"
      [] s = "or" -> "Or"
      [] s = "not" -> "Not"
      [] s = "None" -> "None"
      [] s = "True" -> "True"
      [] s = "False" -> "False"

(***************************************************************************)
(* LineOfCode: the tokens of one physical line.                            *)
(***************************************************************************)
RECURSIVE SkipNewLinesOnly(_)
SkipNewLinesOnly(inp) ==
    IF peek(inp) = NL THEN SkipNewLinesOnly(AfterGet(inp)) ELSE inp

\* ProcessSpaces: get() while it yields a space, then unget() the character
\* that ended the run (nothing is put back at the end of the stream)
RECURSIVE ProcessSpaces(_)
ProcessSpaces(inp) ==
    IF peek(inp) = SP
    THEN LET r == ProcessSpaces(AfterGet(inp))
         IN  [count |-> r.count + 1, rest |-> r.rest]
    ELSE [count |-> 0, rest |-> inp]

\* ProcessComment: get() up to the newline, which is put back, or to the end
RECURSIVE ProcessComment(_)
ProcessComment(inp) ==
    IF peek(inp) = NL \/ peek(inp) = EOF THEN inp
    ELSE ProcessComment(AfterGet(inp))

DigitValue(ch) == (CHOOSE i \in 1..Len(Digits) : Digits[i] = ch) - 1

\* ReadNumber: the digits are collected and converted by stoi
RECURSIVE ReadDigits(_, _)
ReadDigits(inp, acc) ==
    IF isdigit(peek(inp))
    THEN ReadDigits(AfterGet(inp), acc * 10 + DigitValue(peek(inp)))
    ELSE [value |-> acc, rest |-> inp]

ReadNumber(inp) ==
    LET r == ReadDigits(inp, 0)
    IN  [tok |-> NumberTok(r.value), rest |-> r.rest, err |-> ""]

RECURSIVE ReadIdentChars(_, _)
ReadIdentChars(inp, acc) ==
    LET ch == peek(inp)
    IN  IF isalpha(ch) \/ ch = "_" \/ isdigit(ch)
        THEN ReadIdentChars(AfterGet(inp), acc \o ch)
        ELSE [ident |-> acc, rest |-> inp]

ReadIdentifier(inp) ==
    LET r == ReadIdentChars(inp, "")
    IN  [tok |-> IF r.ident \in Keywords THEN Tok(KeywordType(r.ident))
                 ELSE IdTok(r.ident),
         rest |-> r.rest, err |-> ""]

EscapedChar(c) ==
    CASE c = "n" -> "\n"
      [] c = "t" -> "\t"
      [] c = "r" -> "\r"
      [] c = "\"" -> "\""
      [] c = "'" -> "'"
      [] c = "\\" -> "\\"

\* ReadString: the loop over the characters after the opening quote
RECURSIVE ReadStringChars(_, _, _)
ReadStringChars(inp, quote_type, s) ==
    IF inp = <<>>
    THEN [tok |-> StringTok(s), rest |-> inp, err |-> "String parsing error"]
    ELSE LET ch == Head(inp)
         IN  IF ch = quote_type
             THEN [tok |-> StringTok(s), rest |-> Tail(inp), err |-> ""]
             ELSE IF ch = "\\"
             THEN IF Tail(inp) = <<>>
                  THEN [tok |-> StringTok(s), rest |-> Tail(inp),
                        err |-> "String parsing error"]
                  ELSE LET escaped_char == Head(Tail(inp))
                       IN  IF escaped_char \in {"n", "t", "r", "\"", "'", "\\"}
                           THEN ReadStringChars(Tail(Tail(inp)), quote_type,
                                                s \o EscapedChar(escaped_char))
                           ELSE [tok |-> StringTok(s), rest |-> Tail(inp),
                                 err |-> "Unrecognized escape sequence \\" \o escaped_char]
             ELSE IF ch = NL \/ ch = "\r"
             THEN [tok |-> StringTok(s), rest |-> inp, err |-> "Unexpected end of line"]
             ELSE ReadStringChars(Tail(inp), quote_type, s \o ch)

ReadString(inp) == ReadStringChars(Tail(inp), Head(inp), "")

ReadCompSymb(c) ==
    CASE c = "!" -> Tok("NotEq")
      [] c = "=" -> Tok("Eq")
      [] c = "<" -> Tok("LessOrEq")
      [] c = ">" -> Tok("GreaterOrEq")

IsEmpty(line_tokens) ==
    line_tokens = <<>> \/ \A i \in 1..Len(line_tokens) : line_tokens[i].type = "Newline"

IsAllEof(line_tokens) ==
    line_tokens = <<>> \/ \A i \in 1..Len(line_tokens) : line_tokens[i].type = "Eof"

\* a ReadLine that ends an unterminated line with Eof alone
EofOnly(line_tokens) == <<Eof>>

\* the tokens appended when the loop of ReadLine peeks the end of the stream
TokensAtEof(line_tokens) ==
    IF ~IsEmpty(line_tokens) /\ line_tokens[Len(line_tokens)].type # "Newline"
    THEN <<Newline, Eof>>
    ELSE <<Eof>>

\* the do-while loop of ReadLine: one iteration, then the rest of the loop
RECURSIVE ReadLineLoop(_, _)
ReadLineLoop(inp, line_tokens) ==
    LET ch == peek(inp)
    IN  IF ch = SP THEN ReadLineLoop(ProcessSpaces(inp).rest, line_tokens)
        ELSE IF ch = HASH THEN ReadLineLoop(ProcessComment(inp), line_tokens)
        ELSE IF ch = EOF
        THEN [tokens |-> line_tokens \o TokensAtEof(line_tokens), rest |-> inp, err |-> ""]
        ELSE IF ch = "\"" \/ ch = "'" \/ isdigit(ch) \/ isalpha(ch) \/ ch = "_"
        THEN LET r == IF ch = "\"" \/ ch = "'" THEN ReadString(inp)
                      ELSE IF isdigit(ch) THEN ReadNumber(inp)
                      ELSE ReadIdentifier(inp)
             IN  IF r.err # ""
                 THEN [tokens |-> line_tokens, rest |-> r.rest, err |-> r.err]
                 ELSE ReadLineLoop(r.rest, Append(line_tokens, r.tok))
        ELSE LET c == ch
                 after == AfterGet(inp)
             IN  IF c \in {"!", "=", "<", ">"} /\ peek(after) = "="
                 THEN ReadLineLoop(AfterGet(after), Append(line_tokens, ReadCompSymb(c)))
                 ELSE IF c = NL
                 THEN [tokens |-> Append(line_tokens, Newline), rest |-> after, err |-> ""]
                 ELSE ReadLineLoop(after, Append(line_tokens, CharTok(c)))

\* LineOfCode::LineOfCode / ReadLine: starting_spaces_, line_tokens_, and the
\* stream left behind; err is the message of the LexerError thrown, if any
ReadLine(inp) ==
    LET sp == ProcessSpaces(SkipNewLinesOnly(inp))
        r == ReadLineLoop(sp.rest, <<>>)
    IN  [spaces |-> sp.count, tokens |-> r.tokens, rest |-> r.rest, err |-> r.err]

(***************************************************************************)
(* Lexer.                                                                  *)
(***************************************************************************)
\* a ParseLine that accepts every indent
AnyIndentAccepted(line) == FALSE

\* the test of ParseLine that throws LexerError("Incorrect indent.")
IncorrectIndent(line) == line.spaces % 2 # 0

Repeat(t, n) == [i \in 1..n |-> t]

\* a ParseLine that marks a change of level by one token, whatever its size
OneTokenPerChange(starting_spaces, cur_indent) ==
    IF starting_spaces \div 2 > cur_indent THEN <<Indent>>
    ELSE IF starting_spaces \div 2 < cur_indent THEN <<Dedent>>
    ELSE <<>>

\* the Indent or Dedent tokens ParseLine puts in front of a line's tokens
IndentTokens(starting_spaces, cur_indent) ==
    IF starting_spaces \div 2 > cur_indent
    THEN Repeat(Indent, starting_spaces \div 2 - cur_indent)
    ELSE IF starting_spaces \div 2 < cur_indent
    THEN Repeat(Dedent, cur_indent - starting_spaces \div 2)
    ELSE <<>>

\* a ParseLine that puts the cursor one past the first new token
CursorPastFirstNew(toks) == Len(toks) + 1

\* the position ParseLine gives the cursor before it appends to the buffer
CursorOfNewTokens(toks) == Len(toks)

\* a ParseLine that appends nothing at the end of the input
NothingAtEnd(cur_indent) == <<>>

\* the tokens ParseLine appends when the line holds only Eof
TokensAtEnd(cur_indent) == Append(Repeat(Dedent, cur_indent), Eof)

\* Lexer::ParseLine on the lexer (toks, cur, ind) and the stream inp; lines are
\* the lines read so far by this call (it calls itself on an empty line).
RECURSIVE ParseLine(_, _, _, _, _)
ParseLine(toks, cur, ind, inp, lines) ==
    LET line == ReadLine(inp)
        read == Append(lines, [spaces |-> line.spaces, tokens |-> line.tokens])
        Thrown(msg, ls) ==
            [tokens |-> toks, cur |-> cur, indent |-> ind, input |-> line.rest,
             status |-> "LexerError", msg |-> msg, lines |-> ls]
        Returned(newtoks, newcur, newind) ==
            [tokens |-> newtoks, cur |-> newcur, indent |-> newind, input |-> line.rest,
             status |-> "ok", msg |-> "", lines |-> read]
    IN  IF line.err # "" THEN Thrown(line.err, lines)
        ELSE IF IncorrectIndent(line) THEN Thrown("Incorrect indent.", read)
        ELSE IF ~IsAllEof(line.tokens) /\ ~IsEmpty(line.tokens)
        THEN Returned(toks \o IndentTokens(line.spaces, ind) \o line.tokens,
                      CursorOfNewTokens(toks), line.spaces \div 2)
        ELSE IF IsAllEof(line.tokens)
        THEN Returned(toks \o TokensAtEnd(ind), CursorOfNewTokens(toks), ind)
        ELSE ParseLine(toks, cur, ind, line.rest, read)

\* the token at a 0-based position of the buffer; a read outside the buffer
\* yields no token of the language
TokenAt(toks, i) == IF i + 1 \in 1..Len(toks) THEN toks[i + 1] ELSE Tok("undefined")

\* Lexer::CurrentToken
CurrentToken(toks, cur) == TokenAt(toks, cur)

(***************************************************************************)
(* The source texts: at most MaxLines lines, each some leading spaces and  *)
(* a body, the last one with or without its newline character.             *)
(***************************************************************************)
\* if x>='a\n':
RichLine == <<"i", "f", " ", "x", ">", "=", "'", "a", "\\", "n", "'", ":">>
\* two spaces, then y='a with the string left open
OpenStringLine == <<" ", " ", "y", "=", "'", "a">>

Lines ==
    { Repeat(SP, n) \o <<"x">> : n \in {0, 1, 2, 4} }
      \cup { Repeat(SP, n) : n \in {0, 1, 2} }
      \cup { Repeat(SP, n) \o <<"#", "c">> : n \in {0, 1, 2} }
      \cup { RichLine, OpenStringLine }

RECURSIVE Texts(_)
Texts(n) ==
    IF n = 0 THEN {<<>>}
    ELSE {<<>>} \cup Lines \cup { l \o <<NL>> \o r : l \in Lines, r \in Texts(n - 1) }

(***************************************************************************)
(* LexSpec: the constructor, then NextToken any number of times.           *)
(***************************************************************************)
EofCount(toks) == Cardinality({i \in 1..Len(toks) : toks[i].type = "Eof"})

LexInit ==
    /\ src \in Texts(MaxLines)
    /\ input_ = src
    /\ tokens_ = <<>>
    /\ cur_token_ = 0
    /\ cur_indent_ = 0
    /\ constructed = FALSE
    /\ op = "none"
    /\ status = "ok"
    /\ errmsg = ""
    /\ ret = Tok("none")
    /\ hist = <<>>
    /\ eof_returned = FALSE
    /\ thrown = FALSE

\* the effect of a call of ParseLine on the variables
ApplyParseLine(r) ==
    /\ tokens_' = r.tokens
    /\ cur_token_' = r.cur
    /\ cur_indent_' = r.indent
    /\ input_' = r.input
    /\ status' = r.status
    /\ errmsg' = r.msg
    /\ hist' = hist \o r.lines
    /\ ret' = IF r.status = "ok" THEN CurrentToken(r.tokens, r.cur) ELSE Tok("none")
    /\ eof_returned' = (eof_returned
                          \/ (r.status = "ok" /\ CurrentToken(r.tokens, r.cur).type = "Eof"))
    /\ thrown' = (thrown \/ r.status # "ok")

\* Lexer::Lexer(std::istream&)
LexerCtor ==
    /\ op = "none"
    /\ op' = "Lexer"
    /\ LET r == ParseLine(tokens_, cur_token_, cur_indent_, input_, <<>>)
       IN  /\ ApplyParseLine(r)
           /\ constructed' = (r.status = "ok")
    /\ UNCHANGED <<src, rtvars>>

\* Lexer::NextToken, when the cursor is on the last token of the buffer
NextTokenParse ==
    /\ constructed
    /\ cur_token_ = Len(tokens_) - 1
    /\ EofCount(tokens_) < MaxEofs
    /\ op' = "NextToken"
    /\ ApplyParseLine(ParseLine(tokens_, cur_token_, cur_indent_, input_, <<>>))
    /\ UNCHANGED <<src, constructed, rtvars>>

\* Lexer::NextToken, when tokens are buffered beyond the cursor
NextTokenBuffered ==
    /\ constructed
    /\ cur_token_ # Len(tokens_) - 1
    /\ op' = "NextToken"
    /\ cur_token_' = cur_token_ + 1
    /\ ret' = TokenAt(tokens_, cur_token_')
    /\ status' = "ok"
    /\ errmsg' = ""
    /\ eof_returned' = (eof_returned \/ ret'.type = "Eof")
    /\ UNCHANGED <<src, input_, tokens_, cur_indent_, constructed, hist, thrown, rtvars>>

LexNext == LexerCtor \/ NextTokenParse \/ NextTokenBuffered

(***************************************************************************)
(* Properties of the lexer.                                                *)
(***************************************************************************)
Count(toks, type) == Cardinality({i \in 1..Len(toks) : toks[i].type = type})

\* the physical lines of a text: the pieces between its newline characters
RECURSIVE LinesOf(_, _)
LinesOf(text, line) ==
    IF text = <<>> THEN <<line>>
    ELSE IF Head(text) = NL THEN <<line>> \o LinesOf(Tail(text), <<>>)
    ELSE LinesOf(Tail(text), Append(line, Head(text)))

RECURSIVE LeadingSpaceCount(_)
LeadingSpaceCount(line) ==
    IF line # <<>> /\ Head(line) = SP THEN 1 + LeadingSpaceCount(Tail(line)) ELSE 0

\* every physical line of the text starts with an even number of spaces
EvenIndented(text) ==
    LET ls == LinesOf(text, <<>>)
    IN  \A i \in 1..Len(ls) : LeadingSpaceCount(ls[i]) % 2 = 0

\* the 1-based position of the first Eof of the buffer (0: none)
FirstEof(toks) ==
    IF Count(toks, "Eof") = 0 THEN 0
    ELSE CHOOSE i \in 1..Len(toks) :
            toks[i].type = "Eof" /\ \A j \in 1..(i - 1) : toks[j].type # "Eof"

\* the lexer has met the end of the stream and no NextToken was called after
\* the Eof was returned
WholeInputConsumed ==
    /\ constructed
    /\ input_ = <<>>
    /\ FirstEof(tokens_) > 0
    /\ cur_token_ + 1 <= FirstEof(tokens_)

\* a line that holds a token of its own: not an empty or comment-only line
HasContent(line) ==
    \E i \in 1..Len(line.tokens) : line.tokens[i].type \notin {"Newline", "Eof"}

\* the last operation tokenized at least one more line
ReadALine == Len(hist') > Len(hist)

\* C1: for a source all of whose lines start with an even number of spaces and
\* that tokenizes without error, once the whole input is consumed the buffer
\* holds as many Indent as Dedent tokens, all of them before the Eof, and
\* exactly one Eof, which is the last token.
C1_BalancedAndOneEof ==
    (WholeInputConsumed /\ EvenIndented(src) /\ ~thrown) =>
        /\ Count(tokens_, "Indent") = Count(tokens_, "Dedent")
        /\ Count(tokens_, "Eof") = 1
        /\ tokens_[Len(tokens_)].type = "Eof"

\* C2: a line with a token of its own and an odd number of leading spaces makes
\* the operation throw LexerError "Incorrect indent." and leaves the buffer,
\* the cursor and the indent level as they were; such a line with an even
\* number of leading spaces never produces this error.
C2_OddIndentFails ==
    [][ ReadALine =>
          LET line == hist'[Len(hist')]
              failed == status' = "LexerError" /\ errmsg' = "Incorrect indent."
          IN  /\ (HasContent(line) /\ line.spaces % 2 = 1) =>
                    /\ failed
                    /\ tokens_' = tokens_
                    /\ cur_token_' = cur_token_
                    /\ cur_indent_' = cur_indent_
              /\ (HasContent(line) /\ line.spaces % 2 = 0) => ~failed
      ]_lexvars

C2_Witness ==
    /\ constructed
    /\ status = "LexerError"
    /\ errmsg = "Incorrect indent."
    /\ HasContent(hist[Len(hist)])
    /\ Len(tokens_) > 0

\* the lines of hist that were accepted with tokens of their own
AcceptedLines(h) ==
    SelectSeq(h, LAMBDA l : HasContent(l) /\ l.spaces % 2 = 0)

\* the indent level of the last accepted line before this one (0: none)
PreviousLevel(h) ==
    LET acc == AcceptedLines(h)
    IN  IF acc = <<>> THEN 0 ELSE acc[Len(acc)].spaces \div 2

\* C3: when a line with tokens of its own at level b follows one at level a,
\* exactly b-a Indent tokens (b > a) or a-b Dedent tokens (b < a) or nothing
\* (a = b) is appended, immediately followed by the tokens of the line, and
\* cur_indent_ becomes b, also when b exceeds a by more than one.
C3_IndentDelta ==
    [][ (ReadALine /\ status' = "ok" /\ HasContent(hist'[Len(hist')])) =>
          LET line == hist'[Len(hist')]
              a == PreviousLevel(hist)
              b == line.spaces \div 2
              d == IF b > a THEN b - a ELSE a - b
              added == SubSeq(tokens_', Len(tokens_) + 1, Len(tokens_'))
          IN  /\ cur_indent_ = a
              /\ cur_indent_' = b
              /\ Len(added) = d + Len(line.tokens)
              /\ \A i \in 1..d : added[i] = IF b > a THEN Indent ELSE Dedent
              /\ SubSeq(added, d + 1, Len(added)) = line.tokens
              /\ Count(added, "Indent") = (IF b > a THEN b - a ELSE 0)
              /\ Count(added, "Dedent") = (IF b < a THEN a - b ELSE 0)
      ]_lexvars

C3_Witness ==
    /\ status = "ok"
    /\ ~thrown
    /\ cur_indent_ = 0
    /\ Count(tokens_, "Eof") = 0
    /\ \E i \in 1..(Len(tokens_) - 1) : tokens_[i] = Indent /\ tokens_[i + 1] = Indent
    /\ \E i \in 1..(Len(tokens_) - 1) : tokens_[i] = Dedent /\ tokens_[i + 1] = Dedent

\* C4: an empty or comment-only line is skipped whatever its number of
\* leading spaces: no operation fails with "Incorrect indent." on such a line.
C4_BlankLineSkipped ==
    (status = "LexerError" /\ errmsg = "Incorrect indent.") =>
        ~IsEmpty(hist[Len(hist)].tokens)

\* C5: a NextToken that returns moves the cursor forward by exactly one and
\* returns the token there; the buffer only ever grows at its end, and it
\* grows in a NextToken only when the cursor was on its last token.
C5_CursorStepsByOne ==
    [][ /\ (op' = "NextToken" /\ status' = "ok") =>
              /\ cur_token_' = cur_token_ + 1
              /\ cur_token_' < Len(tokens_')
              /\ ret' = tokens_'[cur_token_' + 1]
        /\ Len(tokens_') >= Len(tokens_)
        /\ SubSeq(tokens_', 1, Len(tokens_)) = tokens_
        /\ (op' = "NextToken" /\ tokens_' # tokens_) => cur_token_ = Len(tokens_) - 1
      ]_lexvars

C5_Witness ==
    /\ op = "NextToken"
    /\ status = "ok"
    /\ Len(hist) >= 3
    /\ cur_token_ >= 4
    /\ cur_token_ < Len(tokens_) - 1

\* C6: once an operation has returned Eof, every later NextToken returns Eof
\* and the current token is Eof.
C6_EofIsFinal ==
    (constructed /\ eof_returned) =>
        /\ ret.type = "Eof"
        /\ CurrentToken(tokens_, cur_token_).type = "Eof"

\* a token of the text of a line
Content(token) == token.type \notin {"Newline", "Indent", "Dedent", "Eof"}

\* C26: the tokens of every line that is not empty end with one Newline,
\* which is made up in front of Eof when the last line has no newline
\* character; the stream does not start with a Newline and holds no two
\* Newline tokens in a row.
C26_OneNewlinePerLine ==
    /\ \A i \in 1..Len(tokens_) :
          /\ Content(tokens_[i]) =>
                /\ i < Len(tokens_)
                /\ Content(tokens_[i + 1]) \/ tokens_[i + 1] = Newline
          /\ tokens_[i] = Newline => (i > 1 /\ Content(tokens_[i - 1]))
    /\ \A k \in 1..Len(hist) :
          (~IsEmpty(hist[k].tokens) /\ ~IsAllEof(hist[k].tokens)) =>
              Count(hist[k].tokens, "Newline") = 1

\* the text x, without a newline character, has given Id Newline Eof
C26_Witness ==
    /\ src = <<"x">>
    /\ tokens_ = <<IdTok("x"), Newline, Eof>>

(***************************************************************************)
(* The runtime: holders, classes, instances.                               *)
(***************************************************************************)
\* ObjectHolder: the tag of the object held ("None" for the empty holder), its
\* value, and for an instance its place in the heap and whether the holder
\* shares ownership (Own) or only borrows (Share)
NoneHolder == [tag |-> "None", num |-> 0, str |-> "", ref |-> 0, own |-> FALSE]
NumberHolder(n) == [tag |-> "Number", num |-> n, str |-> "", ref |-> 0, own |-> FALSE]
BoolHolder(b) == [tag |-> "Bool", num |-> IF b THEN 1 ELSE 0, str |-> "", ref |-> 0,
                  own |-> FALSE]
StringHolder(s) == [tag |-> "String", num |-> 0, str |-> s, ref |-> 0, own |-> FALSE]
ClassHolder(c) == [tag |-> "Class", num |-> 0, str |-> "", ref |-> c, own |-> FALSE]
\* ObjectHolder::Own of a ClassInstance
Own(i) == [tag |-> "Instance", num |-> 0, str |-> "", ref |-> i, own |-> TRUE]
\* ObjectHolder::Share
Share(i) == [tag |-> "Instance", num |-> 0, str |-> "", ref |-> i, own |-> FALSE]

\* ObjectHolder::operator bool
NonEmpty(h) == h.tag # "None"

\* a truth test that takes every object that is not a false value for true
TrueUnlessFalseValue(obj) ==
    /\ NonEmpty(obj)
    /\ ~(obj.tag = "Bool" /\ obj.num = 0)
    /\ ~(obj.tag = "Number" /\ obj.num = 0)
    /\ ~(obj.tag = "String" /\ obj.str = "")

\* runtime::IsTrue
IsTrue(obj) ==
    IF ~NonEmpty(obj) THEN FALSE
    ELSE IF obj.tag = "Bool" THEN obj.num = 1
    ELSE IF obj.tag = "Number" THEN obj.num # 0
    ELSE IF obj.tag = "String" THEN obj.str # ""
    ELSE IF obj.tag = "Class" THEN FALSE
    ELSE IF obj.tag = "Instance" THEN FALSE
    ELSE TRUE

\* Closure: a map from names to holders
EmptyClosure == [k \in {} |-> NoneHolder]
Bound(closure, k) == k \in DOMAIN closure
Bind(closure, k, h) == [x \in DOMAIN closure \cup {k} |-> IF x = k THEN h ELSE closure[x]]

\* the null pointer Class::GetMethod returns
NoMethod == [cls |-> 0, idx |-> 0]

\* Class::Class: methods_map_ takes each name to the position of the last
\* method of that name (0: the name is not in the map)
MethodsMap(methods, name) ==
    LET at == {i \in 1..Len(methods) : methods[i].name = name}
    IN  IF at = {} THEN 0 ELSE CHOOSE i \in at : \A j \in at : j <= i

\* a GetMethod that looks into the class's own methods only
OwnMethodOnly(table, c, name) ==
    IF MethodsMap(table[c].methods, name) # 0
    THEN [cls |-> c, idx |-> MethodsMap(table[c].methods, name)]
    ELSE NoMethod

\* Class::GetMethod on class c of the table: the class and the position of
\* the method found, or NoMethod
RECURSIVE GetMethod(_, _, _)
GetMethod(table, c, name) ==
    IF MethodsMap(table[c].methods, name) # 0
    THEN [cls |-> c, idx |-> MethodsMap(table[c].methods, name)]
    ELSE IF table[c].parent # 0 THEN GetMethod(table, table[c].parent, name)
    ELSE NoMethod

MethodOf(table, p) == table[p.cls].methods[p.idx]

\* a HasMethod that does not compare the number of arguments
HasMethodOfAnyArity(table, c, method, argument_count) ==
    GetMethod(table, c, method) # NoMethod

\* ClassInstance::HasMethod for an instance of class c
HasMethod(table, c, method, argument_count) ==
    LET p_method == GetMethod(table, c, method)
    IN  p_method # NoMethod /\ Len(MethodOf(table, p_method).formal_params) = argument_count

(***************************************************************************)
(* The machine an evaluation runs on: m.heap the instances, m.out the      *)
(* output stream, m.nid the next NewInstanceId, m.ub whether the           *)
(* evaluation has run into undefined behaviour (a use of a destroyed       *)
(* instance, a dereference of a null pointer), m.unowned whether a method  *)
(* was run on an instance no holder owned.                                 *)
(***************************************************************************)
Alive(m, i) == m.heap[i].alive

\* a read or write through a pointer to instance i
Use(m, i) == IF Alive(m, i) THEN m ELSE [m EXCEPT !.ub = TRUE]

\* a read through the pointer holder h holds
Deref(m, h) == IF h.tag = "Instance" THEN Use(m, h.ref) ELSE m

\* a copy of a holder: an owning holder of an instance shares its ownership
Retain(m, h) ==
    IF h.tag = "Instance" /\ h.own /\ Alive(m, h.ref)
    THEN [m EXCEPT !.heap[h.ref].rc = @ + 1]
    ELSE m

\* the destruction of a holder: the last owning holder of an instance destroys
\* it, and with it the holders of its fields
RECURSIVE Release(_, _)
RECURSIVE ReleaseAll(_, _, _)
Release(m, h) ==
    IF h.tag = "Instance" /\ h.own
    THEN IF ~Alive(m, h.ref) THEN [m EXCEPT !.ub = TRUE]
         ELSE IF m.heap[h.ref].rc > 1 THEN [m EXCEPT !.heap[h.ref].rc = @ - 1]
         ELSE LET fields == m.heap[h.ref].fields
                  dead == [m EXCEPT !.heap[h.ref] =
                              [@ EXCEPT !.rc = 0, !.alive = FALSE, !.fields = EmptyClosure]]
              IN  ReleaseAll(dead, fields, DOMAIN fields)
    ELSE m

ReleaseAll(m, closure, keys) ==
    IF keys = {} THEN m
    ELSE LET k == CHOOSE x \in keys : TRUE
         IN  ReleaseAll(Release(m, closure[k]), closure, keys \ {k})

RECURSIVE ReleaseSeq(_, _)
ReleaseSeq(m, holders) ==
    IF holders = <<>> THEN m ELSE ReleaseSeq(Release(m, Head(holders)), Tail(holders))

\* how an Execute ends: with a holder ("value"), with a std::runtime_error
\* ("error"), or with the exception a Return statement throws ("return")
Value(h, closure, m) == [kind |-> "value", val |-> h, msg |-> "", clo |-> closure, m |-> m]
Error(msg, closure, m) ==
    [kind |-> "error", val |-> NoneHolder, msg |-> msg, clo |-> closure, m |-> m]
Signal(h, closure, m) == [kind |-> "return", val |-> h, msg |-> "", clo |-> closure, m |-> m]

(***************************************************************************)
(* The statements (AST nodes).                                             *)
(***************************************************************************)
NoStatement == [type |-> "null"]
VariableValue(var_name) == [type |-> "VariableValue", name |-> var_name, dotted_ids |-> <<>>]
DottedValue(dotted_ids) == [type |-> "VariableValue", name |-> "", dotted_ids |-> dotted_ids]
Assignment(var, rv) == [type |-> "Assignment", name |-> var, rv |-> rv]
PrintStatement(args) == [type |-> "Print", args |-> args]
MethodCall(object, method, args) ==
    [type |-> "MethodCall", object |-> object, method |-> method, args |-> args]
NewInstance(class, args) == [type |-> "NewInstance", class |-> class, args |-> args]
Compound(args) == [type |-> "Compound", args |-> args]
Return(statement) == [type |-> "Return", statement |-> statement]
MethodBody(body) == [type |-> "MethodBody", body |-> body]
FieldAssignment(object, field_name, rv) ==
    [type |-> "FieldAssignment", object |-> object, field_name |-> field_name, rv |-> rv]
IfElse(condition, if_body, else_body) ==
    [type |-> "IfElse", condition |-> condition, if_body |-> if_body,
     else_body |-> else_body]
ClassDefinition(cls) == [type |-> "ClassDefinition", cls |-> cls]
Or(lhs, rhs) == [type |-> "Or", lhs |-> lhs, rhs |-> rhs]
And(lhs, rhs) == [type |-> "And", lhs |-> lhs, rhs |-> rhs]
Not(arg) == [type |-> "Not", arg |-> arg]
Sub(lhs, rhs) == [type |-> "Sub", lhs |-> lhs, rhs |-> rhs]
Mult(lhs, rhs) == [type |-> "Mult", lhs |-> lhs, rhs |-> rhs]
Div(lhs, rhs) == [type |-> "Div", lhs |-> lhs, rhs |-> rhs]

RECURSIVE Execute(_, _, _)
RECURSIVE ExecuteArgs(_, _, _, _)
RECURSIVE Call(_, _, _, _)
RECURSIVE PrintObject(_, _)

\* an Execute or a Call that ended in an exception: the same ending, seen from
\* the caller, in the caller's closure
Unwind(r, closure, m) == [kind |-> r.kind, val |-> r.val, msg |-> r.msg, clo |-> closure, m |-> m]

\* the same ending in another closure
InClosure(r, closure) == [r EXCEPT !.clo = closure]

\* the loop of MethodCall::Execute and NewInstance::Execute that fills
\* args_executed; done are the holders already in the vector, r is what the
\* next argument evaluated to
ArgExecuted(args, done, r) ==
    IF r.kind # "value"
    THEN [kind |-> r.kind, val |-> r.val, msg |-> r.msg, clo |-> r.clo,
          m |-> ReleaseSeq(r.m, done), vals |-> <<>>]
    ELSE ExecuteArgs(Tail(args), Append(done, r.val), r.clo, r.m)

ExecuteArgs(args, done, closure, m) ==
    IF args = <<>>
    THEN [kind |-> "value", val |-> NoneHolder, msg |-> "", clo |-> closure, m |-> m,
          vals |-> done]
    ELSE ArgExecuted(args, done, Execute(Head(args), closure, m))

\* a Call that binds no formal parameter
NoParamsBound(locals, formal_params, actual_args, m) == [ok |-> TRUE, clo |-> locals, m |-> m]

\* the loop of ClassInstance::Call that copies the actuals into locals;
\* actual_args.at(i) throws std::out_of_range past the end (ok is FALSE then)
RECURSIVE BindParams(_, _, _, _)
BindParams(locals, formal_params, actual_args, m) ==
    IF formal_params = <<>> THEN [ok |-> TRUE, clo |-> locals, m |-> m]
    ELSE IF actual_args = <<>> THEN [ok |-> FALSE, clo |-> locals, m |-> m]
    ELSE BindParams(Bind(locals, Head(formal_params), Head(actual_args)),
                    Tail(formal_params), Tail(actual_args),
                    Release(Retain(m, Head(actual_args)),
                            IF Bound(locals, Head(formal_params))
                            THEN locals[Head(formal_params)] ELSE NoneHolder))

\* the moment a method body returns to ClassInstance::Call: the instance the
\* borrowing holder self refers to must still be owned by some holder
BodyReturned(m, i) == [m EXCEPT !.unowned = @ \/ ~Alive(m, i)]

\* ClassInstance::Call, its end: the body of the method ended as r, and locals
\* is destroyed
CallReturned(i, r) ==
    Unwind(r, EmptyClosure, ReleaseAll(BodyReturned(r.m, i), r.clo, DOMAIN r.clo))

\* ClassInstance::Call once locals is filled
CallBound(i, p_method, locals) ==
    IF ~locals.ok
    THEN Error("vector::at", EmptyClosure, ReleaseAll(locals.m, locals.clo, DOMAIN locals.clo))
    ELSE CallReturned(i, Execute(p_method.body, locals.clo, locals.m))

\* ClassInstance::Call on instance i
Call(i, method, actual_args, m) ==
    IF ~HasMethod(classes, Use(m, i).heap[i].cls, method, Len(actual_args))
    THEN Error("Error call " \o method \o ".", EmptyClosure, Use(m, i))
    ELSE CallBound(i, MethodOf(classes, GetMethod(classes, m.heap[i].cls, method)),
                   BindParams(Bind(EmptyClosure, "self", Share(i)),
                              MethodOf(classes, GetMethod(classes, m.heap[i].cls,
                                                          method)).formal_params,
                              actual_args, Use(m, i)))

Write(m, text) == [m EXCEPT !.out = @ \o text]

\* ClassInstance::Print, after __str__ returned: p is how the printing of the
\* object it returned ended, h the holder of that object
StrPrinted(p, h) == [p EXCEPT !.m = Release(p.m, h)]

\* ClassInstance::Print, after the call of __str__ ended as r
StrReturned(r) ==
    IF r.kind # "value" THEN r
    ELSE IF ~NonEmpty(r.val)
    THEN \* Print is called through the empty holder
         Value(NoneHolder, EmptyClosure, [r.m EXCEPT !.ub = TRUE])
    ELSE StrPrinted(PrintObject(r.val, r.m), r.val)

\* ValueObject::Print of a Number or a String: the value as the stream
\* writes it
ValueText(obj) == IF obj.tag = "Number" THEN ToString(obj.num) ELSE obj.str

\* Object::Print of the object holder obj holds (obj is not empty)
PrintObject(obj, m) ==
    IF obj.tag = "Number" \/ obj.tag = "String"
    THEN Value(NoneHolder, EmptyClosure, Write(m, ValueText(obj)))
    ELSE IF obj.tag = "Bool"
    THEN Value(NoneHolder, EmptyClosure, Write(m, IF obj.num = 1 THEN "True" ELSE "False"))
    ELSE IF obj.tag = "Class"
    THEN Value(NoneHolder, EmptyClosure, Write(m, "Class " \o classes[obj.ref].name))
    ELSE \* ClassInstance::Print
         IF HasMethod(classes, m.heap[obj.ref].cls, "__str__", 0)
         THEN StrReturned(Call(obj.ref, "__str__", <<>>, Use(m, obj.ref)))
         ELSE Value(NoneHolder, EmptyClosure, Write(Use(m, obj.ref), "@" \o ToString(obj.ref)))

\* VariableValue::Execute, the walk along dotted_ids from position i on
RECURSIVE WalkDottedIds(_, _, _, _, _)
WalkDottedIds(ids, i, next_closure, closure, m) ==
    IF ~Bound(next_closure, ids[i]) THEN Error("Unknown variable " \o ids[i], closure, m)
    ELSE IF i = Len(ids)
    THEN Value(next_closure[ids[i]], closure, Retain(m, next_closure[ids[i]]))
    ELSE IF next_closure[ids[i]].tag = "Instance"
    THEN WalkDottedIds(ids, i + 1, m.heap[next_closure[ids[i]].ref].fields, closure,
                       Use(m, next_closure[ids[i]].ref))
    ELSE Error("Instance is not a class", closure, m)

ExecuteVariableValue(node, closure, m) ==
    IF node.name # ""
    THEN IF Bound(closure, node.name)
         THEN Value(closure[node.name], closure, Retain(m, closure[node.name]))
         ELSE Error("Unknown variable " \o node.name, closure, m)
    ELSE IF node.dotted_ids # <<>> THEN WalkDottedIds(node.dotted_ids, 1, closure, closure, m)
    ELSE Error("Unknown variable", closure, m)

\* Assignment::Execute once rv_ is evaluated
Assigned(node, r) ==
    IF r.kind # "value" THEN r
    ELSE Value(r.val, Bind(r.clo, node.name, r.val),
               Retain(Release(r.m, IF Bound(r.clo, node.name) THEN r.clo[node.name]
                                   ELSE NoneHolder),
                      r.val))

ExecuteAssignment(node, closure, m) == Assigned(node, Execute(node.rv, closure, m))

RECURSIVE PrintArgs(_, _, _, _)

\* Print::Execute once argument i, which evaluated to r, is printed (p)
ArgPrinted(args, i, r, p) ==
    IF p.kind # "value" THEN Unwind(p, r.clo, Release(p.m, r.val))
    ELSE PrintArgs(args, i + 1, r.clo,
                   Release(IF i # Len(args) THEN Write(p.m, " ") ELSE p.m, r.val))

\* Print::Execute once argument i is evaluated
ArgToPrint(args, i, r) ==
    IF r.kind # "value" THEN r
    ELSE ArgPrinted(args, i, r,
                    IF NonEmpty(r.val) THEN PrintObject(r.val, r.m)
                    ELSE Value(NoneHolder, EmptyClosure, Write(r.m, "None")))

\* Print::Execute from argument i on
PrintArgs(args, i, closure, m) ==
    IF i > Len(args) THEN Value(NoneHolder, closure, Write(m, "\n"))
    ELSE ArgToPrint(args, i, Execute(args[i], closure, m))

ExecutePrint(node, closure, m) == PrintArgs(node.args, 1, closure, m)

\* MethodCall::Execute after class_obj->Call ended as r
Called(r, a) == Unwind(r, a.clo, ReleaseSeq(r.m, a.vals))

\* MethodCall::Execute once the arguments are evaluated (a)
DispatchArgs(node, class_obj, a) ==
    IF a.kind # "value" THEN Unwind(a, a.clo, a.m)
    ELSE Called(Call(class_obj, node.method, a.vals, a.m), a)

\* MethodCall::Execute once the receiver is evaluated and the temporary
\* holder of it is gone: class_obj is what TryAs<ClassInstance> returned
\* (0: a null pointer)
Dispatch(node, class_obj, closure, m) ==
    IF class_obj # 0
       /\ HasMethod(classes, m.heap[class_obj].cls, node.method, Len(node.args))
    THEN DispatchArgs(node, class_obj,
                      ExecuteArgs(node.args, <<>>, closure, Use(m, class_obj)))
    ELSE Value(NoneHolder, closure, IF class_obj # 0 THEN Use(m, class_obj) ELSE m)

\* the receiver of MethodCall::Execute: the holder object_->Execute returns
\* lives only until TryAs has produced the raw pointer
ReceiverPointer(r) ==
    [class_obj |-> IF r.val.tag = "Instance" THEN r.val.ref ELSE 0,
     m |-> Release(Deref(r.m, r.val), r.val)]

\* MethodCall::Execute once object_ is evaluated
ReceiverExecuted(node, r, p) == Dispatch(node, p.class_obj, r.clo, p.m)

\* MethodCall::Execute once object_->Execute ended as r
ObjectOfCall(node, r) ==
    IF r.kind # "value" THEN r ELSE ReceiverExecuted(node, r, ReceiverPointer(r))

ExecuteMethodCall(node, closure, m) == ObjectOfCall(node, Execute(node.object, closure, m))

\* NewInstanceId(): a number no earlier call returned
NewInstanceId(m) == m.nid

\* the key the new instance is stored under
InstanceKey(node, m) == ToString(NewInstanceId(m)) \o "_" \o classes[node.class].name

\* NewInstance::Execute, its last line: closure.at(name)
StoredInstance(name, closure, m) ==
    IF Bound(closure, name) THEN Value(closure[name], closure, Retain(m, closure[name]))
    ELSE Error("map::at", closure, m)

\* NewInstance::Execute after __init__ ended as r
Initialized(name, r, a) ==
    IF r.kind # "value" THEN Unwind(r, a.clo, ReleaseSeq(r.m, a.vals))
    ELSE StoredInstance(name, a.clo, ReleaseSeq(Release(r.m, r.val), a.vals))

\* NewInstance::Execute once the arguments of __init__ are evaluated (a)
Initialize(name, i, a) ==
    IF a.kind # "value" THEN Unwind(a, a.clo, a.m)
    ELSE Initialized(name, Call(i, "__init__", a.vals, a.m), a)

\* a NewInstance that never calls __init__
StoredUninitialized(node, name, i, closure, m) == StoredInstance(name, closure, m)

\* NewInstance::Execute once the instance i is stored in closure under name
Stored(node, name, i, closure, m) ==
    IF HasMethod(classes, node.class, "__init__", Len(node.args))
    THEN Initialize(name, i, ExecuteArgs(node.args, <<>>, closure, m))
    ELSE StoredInstance(name, closure, m)

ExecuteNewInstance(node, closure, m) ==
    Stored(node, InstanceKey(node, m), Len(m.heap) + 1,
           Bind(closure, InstanceKey(node, m), Own(Len(m.heap) + 1)),
           Release([m EXCEPT !.nid = @ + 1,
                             !.heap = Append(@, [cls |-> node.class,
                                                 fields |-> EmptyClosure,
                                                 rc |-> 1, alive |-> TRUE])],
                   IF Bound(closure, InstanceKey(node, m))
                   THEN closure[InstanceKey(node, m)] ELSE NoneHolder))

\* Compound::Execute from statement i on
RECURSIVE CompoundFrom(_, _, _, _)

\* a Compound that goes on with its next statement however the last one ended
StatementIgnored(args, i, r) == CompoundFrom(args, i + 1, r.clo, Release(r.m, r.val))

StatementExecuted(args, i, r) ==
    IF r.kind # "value" THEN r
    ELSE CompoundFrom(args, i + 1, r.clo, Release(r.m, r.val))

CompoundFrom(args, i, closure, m) ==
    IF i > Len(args) THEN Value(NoneHolder, closure, m)
    ELSE StatementExecuted(args, i, Execute(args[i], closure, m))

ExecuteCompound(node, closure, m) == CompoundFrom(node.args, 1, closure, m)

\* Return::Execute: the value of the statement is thrown
Throw(r) == IF r.kind # "value" THEN r ELSE Signal(r.val, r.clo, r.m)

ExecuteReturn(node, closure, m) == Throw(Execute(node.statement, closure, m))

\* a MethodBody that catches the exception of Return and drops its value
ValueDropped(r) ==
    IF r.kind = "return" \/ r.kind = "value"
    THEN Value(NoneHolder, r.clo, Release(r.m, r.val))
    ELSE r

\* what MethodBody::Execute makes of the way its body ended
MethodBodyResult(r) ==
    IF r.kind = "return" THEN Value(r.val, r.clo, r.m)
    ELSE IF r.kind = "value" THEN Value(NoneHolder, r.clo, Release(r.m, r.val))
    ELSE r

ExecuteMethodBody(node, closure, m) == MethodBodyResult(Execute(node.body, closure, m))

\* a FieldAssignment that binds the name of the field in the closure it is
\* executed in and leaves the instance alone
AssignedInScope(node, i, o, r) ==
    IF r.kind # "value" THEN [r EXCEPT !.m = Release(r.m, o)]
    ELSE Value(r.val, Bind(r.clo, node.field_name, r.val),
               Release(Retain(Retain(Release(r.m, IF Bound(r.clo, node.field_name)
                                                  THEN r.clo[node.field_name]
                                                  ELSE NoneHolder),
                                     r.val),
                              r.val),
                       o))

\* FieldAssignment::Execute once rv_ is evaluated (r): the field of instance
\* i is overwritten, and the holder o of the instance is destroyed
FieldAssigned(node, i, o, r) ==
    IF r.kind # "value" THEN [r EXCEPT !.m = Release(r.m, o)]
    ELSE Value(r.val, r.clo,
               Release(Retain(Use(Release([Use(r.m, i) EXCEPT !.heap[i].fields =
                                                Bind(@, node.field_name, r.val)],
                                          IF Bound(r.m.heap[i].fields, node.field_name)
                                          THEN r.m.heap[i].fields[node.field_name]
                                          ELSE NoneHolder),
                                  i),
                              r.val),
                       o))

\* FieldAssignment::Execute once object_ is evaluated (o)
ObjectExecuted(node, o) ==
    IF o.kind # "value" THEN o
    ELSE IF o.val.tag # "Instance"
    THEN \* TryAs yields a null pointer, and Fields() is called through it
         Value(NoneHolder, o.clo, [o.m EXCEPT !.ub = TRUE])
    ELSE FieldAssigned(node, o.val.ref, o.val,
                       Execute(node.rv, o.clo, Use(o.m, o.val.ref)))

ExecuteFieldAssignment(node, closure, m) ==
    ObjectExecuted(node, ExecuteVariableValue(node.object, closure, m))

\* IfElse::Execute once the branch taken ended as r: the holder c of the
\* condition is destroyed
BranchExecuted(r, c) == [r EXCEPT !.m = Release(r.m, c)]

\* IfElse::Execute once condition_ is evaluated (c)
ConditionExecuted(node, c) ==
    IF c.kind # "value" THEN c
    ELSE BranchExecuted(
             IF IsTrue(c.val) THEN Execute(node.if_body, c.clo, Deref(c.m, c.val))
             ELSE IF node.else_body.type # "null"
             THEN Execute(node.else_body, c.clo, Deref(c.m, c.val))
             ELSE Value(NoneHolder, c.clo, Deref(c.m, c.val)),
             c.val)

ExecuteIfElse(node, closure, m) == ConditionExecuted(node, Execute(node.condition, closure, m))

ExecuteClassDefinition(node, closure, m) ==
    Value(ClassHolder(node.cls), Bind(closure, classes[node.cls].name, ClassHolder(node.cls)),
          m)

\* Or::Execute and And::Execute once both operands are evaluated: lhs_obj is
\* the holder of the left one, r how the right one ended
RhsExecuted(node, lhs_obj, r) ==
    IF r.kind # "value" THEN [r EXCEPT !.m = Release(r.m, lhs_obj)]
    ELSE IF NonEmpty(lhs_obj) /\ NonEmpty(r.val)
    THEN Value(BoolHolder(IF node.type = "Or" THEN IsTrue(lhs_obj) \/ IsTrue(r.val)
                          ELSE IsTrue(lhs_obj) /\ IsTrue(r.val)),
               r.clo, Release(Release(Deref(Deref(r.m, lhs_obj), r.val), r.val), lhs_obj))
    ELSE Error("'" \o node.type \o "' is not implemented for these operands", r.clo,
               Release(Release(r.m, r.val), lhs_obj))

\* an Or and an And that leave the right operand alone when the left one
\* decides
ShortCircuit(node, l) ==
    IF l.kind # "value" THEN l
    ELSE IF NonEmpty(l.val) /\ IsTrue(l.val) = (node.type = "Or")
    THEN Value(BoolHolder(node.type = "Or"), l.clo, Release(l.m, l.val))
    ELSE RhsExecuted(node, l.val, Execute(node.rhs, l.clo, l.m))

\* Or::Execute and And::Execute once the left operand is evaluated (l)
LhsExecuted(node, l) ==
    IF l.kind # "value" THEN l
    ELSE RhsExecuted(node, l.val, Execute(node.rhs, l.clo, l.m))

ExecuteOr(node, closure, m) == LhsExecuted(node, Execute(node.lhs, closure, m))

ExecuteAnd(node, closure, m) == LhsExecuted(node, Execute(node.lhs, closure, m))

\* Not::Execute once the argument is evaluated (a)
ArgNegated(a) ==
    IF a.kind # "value" THEN a
    ELSE IF NonEmpty(a.val)
    THEN Value(BoolHolder(~IsTrue(a.val)), a.clo, Release(Deref(a.m, a.val), a.val))
    ELSE Error("'Not' is not implemented for this argument", a.clo, a.m)

ExecuteNot(node, closure, m) == ArgNegated(Execute(node.arg, closure, m))

\* the largest and the smallest value of the int a Number holds
IntMax == 2147483647
IntMin == -IntMax - 1

\* a - b, a * b, a / b are values of int (otherwise the arithmetic of the
\* code overflows, which is undefined)
Representable(type, a, b) ==
    CASE type = "Sub" -> IF b >= 0 THEN a >= IntMin + b ELSE a <= IntMax + b
      [] type = "Mult" ->
           IF a = 0 \/ b = 0 THEN TRUE
           ELSE IF a = IntMin THEN b = 1
           ELSE IF b = IntMin THEN a = 1
           ELSE LET x == IF a < 0 THEN -a ELSE a
                    y == IF b < 0 THEN -b ELSE b
                IN  \/ x <= IntMax \div y
                    \/ (a < 0) # (b < 0) /\ x = (IntMax \div y) + 1 /\ IntMax % y = y - 1
      [] type = "Div" -> ~(a = IntMin /\ b = -1)

\* the operators - * / of int on operands whose result is representable;
\* the quotient is rounded towards zero
IntResult(type, a, b) ==
    CASE type = "Sub" -> a - b
      [] type = "Mult" ->
           IF a = 0 \/ b = 0 THEN 0
           ELSE IF a = IntMin \/ b = IntMin THEN IntMin
           ELSE IF (a < 0) # (b < 0) /\ (IF a < 0 THEN -a ELSE a) > IntMax \div (IF b < 0 THEN -b ELSE b)
           THEN IntMin
           ELSE a * b
      [] type = "Div" ->
           IF b = IntMin THEN (IF a = IntMin THEN 1 ELSE 0)
           ELSE LET y == IF b < 0 THEN -b ELSE b
                    q == IF a < 0 /\ a % y # 0 THEN (a \div y) + 1 ELSE a \div y
                IN  IF b < 0 THEN -q ELSE q

\* what the exception of an arithmetic node says
NotImplemented(type) ==
    (CASE type = "Sub" -> "Subtraction"
       [] type = "Mult" -> "Multiplication"
       [] type = "Div" -> "Division") \o " is not implemented for these operands"

\* Sub::Execute, Mult::Execute and Div::Execute once both operands are
\* evaluated: lhs_obj is the holder of the left one, r how the right one ended
Computed(node, lhs_obj, r) ==
    IF r.kind # "value" THEN [r EXCEPT !.m = Release(r.m, lhs_obj)]
    ELSE IF /\ lhs_obj.tag = "Number"
            /\ r.val.tag = "Number"
            /\ node.type = "Div" => r.val.num # 0
    THEN IF Representable(node.type, lhs_obj.num, r.val.num)
         THEN Value(NumberHolder(IntResult(node.type, lhs_obj.num, r.val.num)), r.clo, r.m)
         ELSE Value(NumberHolder(0), r.clo, [r.m EXCEPT !.ub = TRUE])
    ELSE Error(NotImplemented(node.type), r.clo, Release(Release(r.m, r.val), lhs_obj))

\* Sub::Execute, Mult::Execute and Div::Execute once the left operand is
\* evaluated (l)
LeftComputed(node, l) ==
    IF l.kind # "value" THEN l
    ELSE Computed(node, l.val, Execute(node.rhs, l.clo, l.m))

ExecuteSub(node, closure, m) == LeftComputed(node, Execute(node.lhs, closure, m))

ExecuteMult(node, closure, m) == LeftComputed(node, Execute(node.lhs, closure, m))

ExecuteDiv(node, closure, m) == LeftComputed(node, Execute(node.lhs, closure, m))

\* Statement::Execute: the virtual call
Execute(node, closure, m) ==
    CASE node.type = "VariableValue" -> ExecuteVariableValue(node, closure, m)
      [] node.type = "Assignment" -> ExecuteAssignment(node, closure, m)
      [] node.type = "Print" -> ExecutePrint(node, closure, m)
      [] node.type = "MethodCall" -> ExecuteMethodCall(node, closure, m)
      [] node.type = "NewInstance" -> ExecuteNewInstance(node, closure, m)
      [] node.type = "Compound" -> ExecuteCompound(node, closure, m)
      [] node.type = "Return" -> ExecuteReturn(node, closure, m)
      [] node.type = "MethodBody" -> ExecuteMethodBody(node, closure, m)
      [] node.type = "FieldAssignment" -> ExecuteFieldAssignment(node, closure, m)
      [] node.type = "IfElse" -> ExecuteIfElse(node, closure, m)
      [] node.type = "ClassDefinition" -> ExecuteClassDefinition(node, closure, m)
      [] node.type = "Or" -> ExecuteOr(node, closure, m)
      [] node.type = "And" -> ExecuteAnd(node, closure, m)
      [] node.type = "Not" -> ExecuteNot(node, closure, m)
      [] node.type = "Sub" -> ExecuteSub(node, closure, m)
      [] node.type = "Mult" -> ExecuteMult(node, closure, m)
      [] node.type = "Div" -> ExecuteDiv(node, closure, m)

(***************************************************************************)
(* The comparators of runtime.cpp.  Each returns a bool or throws: the     *)
(* bool is held in val as a Bool holder.                                   *)
(***************************************************************************)
Returns(b, m) == Value(BoolHolder(b), EmptyClosure, m)

\* the strings of the model in the order of std::string::operator<
Strings == <<"", "a", "ab", "s">>
StringLess(x, y) ==
    \E i, j \in 1..Len(Strings) : Strings[i] = x /\ Strings[j] = y /\ i < j

\* Call(...).TryAs<Bool>()->GetValue() once the call ended as r; the vector
\* built for the call, which holds a copy of rhs, is gone
BoolOfCall(r, rhs) ==
    IF r.kind # "value" THEN Unwind(r, EmptyClosure, Release(r.m, rhs))
    ELSE IF r.val.tag # "Bool"
    THEN \* GetValue is called through a null pointer
         Returns(FALSE, [Release(Release(r.m, r.val), rhs) EXCEPT !.ub = TRUE])
    ELSE Returns(r.val.num = 1, Release(Release(r.m, r.val), rhs))

\* the TryAs tests of a comparator that finds no pair of values of one type:
\* they read the object of lhs, and that of rhs when lhs is a Bool, a Number
\* or a String
Inspected(lhs, rhs, m) ==
    IF lhs.tag \in {"Bool", "Number", "String"} THEN Deref(m, rhs) ELSE Deref(m, lhs)

\* an Equal that compares values of one type and calls no method
EqualWithoutDispatch(lhs, rhs, m) ==
    IF lhs.tag = rhs.tag /\ lhs.tag \in {"Bool", "Number", "String"}
    THEN Returns(lhs.num = rhs.num /\ lhs.str = rhs.str, m)
    ELSE IF ~NonEmpty(lhs) /\ ~NonEmpty(rhs) THEN Returns(TRUE, m)
    ELSE Error("Cannot compare objects for equality", EmptyClosure, m)

\* runtime::Equal
Equal(lhs, rhs, m) ==
    IF lhs.tag = "Bool" /\ rhs.tag = "Bool" THEN Returns(lhs.num = rhs.num, m)
    ELSE IF lhs.tag = "Number" /\ rhs.tag = "Number" THEN Returns(lhs.num = rhs.num, m)
    ELSE IF lhs.tag = "String" /\ rhs.tag = "String" THEN Returns(lhs.str = rhs.str, m)
    ELSE IF lhs.tag = "Instance"
            /\ HasMethod(classes, Use(m, lhs.ref).heap[lhs.ref].cls, "__eq__", 1)
    THEN BoolOfCall(Call(lhs.ref, "__eq__", <<rhs>>, Retain(Use(m, lhs.ref), rhs)), rhs)
    ELSE IF ~NonEmpty(lhs) /\ ~NonEmpty(rhs) THEN Returns(TRUE, m)
    ELSE Error("Cannot compare objects for equality", EmptyClosure, Inspected(lhs, rhs, m))

\* runtime::Less
Less(lhs, rhs, m) ==
    IF lhs.tag = "Bool" /\ rhs.tag = "Bool" THEN Returns(lhs.num < rhs.num, m)
    ELSE IF lhs.tag = "Number" /\ rhs.tag = "Number" THEN Returns(lhs.num < rhs.num, m)
    ELSE IF lhs.tag = "String" /\ rhs.tag = "String" THEN Returns(StringLess(lhs.str, rhs.str), m)
    ELSE IF lhs.tag = "Instance"
            /\ HasMethod(classes, Use(m, lhs.ref).heap[lhs.ref].cls, "__lt__", 1)
    THEN BoolOfCall(Call(lhs.ref, "__lt__", <<rhs>>, Retain(Use(m, lhs.ref), rhs)), rhs)
    ELSE Error("Cannot compare objects for less", EmptyClosure, Inspected(lhs, rhs, m))

\* operator! on what a comparator returned
Negated(r) == IF r.kind # "value" THEN r ELSE [r EXCEPT !.val = BoolHolder(r.val.num = 0)]

\* runtime::NotEqual
NotEqual(lhs, rhs, m) == Negated(Equal(lhs, rhs, m))

\* a Greater that does not ask Equal
NotLessOnly(lhs, rhs, l) == Negated(l)

\* runtime::Greater once Less returned l: && goes on to NotEqual only when
\* !Less is true
GreaterAfterLess(lhs, rhs, l) ==
    IF l.kind # "value" THEN l
    ELSE IF l.val.num = 1 THEN Returns(FALSE, l.m)
    ELSE NotEqual(lhs, rhs, l.m)

\* runtime::Greater
Greater(lhs, rhs, m) == GreaterAfterLess(lhs, rhs, Less(lhs, rhs, m))

\* runtime::LessOrEqual
LessOrEqual(lhs, rhs, m) == Negated(Greater(lhs, rhs, m))

\* runtime::GreaterOrEqual
GreaterOrEqual(lhs, rhs, m) == Negated(Less(lhs, rhs, m))

(***************************************************************************)
(* The classes of the program the statements of EvalSpec belong to.        *)
(***************************************************************************)
Self == VariableValue("self")

Method(name, formal_params, body) ==
    [name |-> name, formal_params |-> formal_params, body |-> body]

\* class Base:
\*   def value(self): return self.v
\*   def set(self, v): self.v = v
\*   def make(self): return Derived(self)
\*   def adopt(self): self.child = Derived(self)
\*   def me(self): return self
\*   def inner(self, v):
\*     if v: return v
\*     print v
BaseMethods ==
    << Method("value", <<>>, MethodBody(Return(DottedValue(<<"self", "v">>)))),
       Method("set", <<"v">>, MethodBody(FieldAssignment(Self, "v", VariableValue("v")))),
       Method("make", <<>>, MethodBody(Return(NewInstance(2, <<Self>>)))),
       Method("adopt", <<>>,
              MethodBody(FieldAssignment(Self, "child", NewInstance(2, <<Self>>)))),
       Method("me", <<>>, MethodBody(Return(Self))),
       Method("inner", <<"v">>,
              MethodBody(Compound(<< IfElse(VariableValue("v"),
                                            Compound(<<Return(VariableValue("v"))>>),
                                            NoStatement),
                                     PrintStatement(<<VariableValue("v")>>) >>))) >>

\* class Derived(Base):
\*   def __init__(self, owner): self.owner = owner
\*   def kill(self, v):
\*     self.owner.child = v
\*     self.v = v
\*   def value(self, d): return d
DerivedMethods ==
    << Method("__init__", <<"owner">>,
              MethodBody(FieldAssignment(Self, "owner", VariableValue("owner")))),
       Method("kill", <<"v">>,
              MethodBody(Compound(<< FieldAssignment(DottedValue(<<"self", "owner">>),
                                                     "child", VariableValue("v")),
                                     FieldAssignment(Self, "v", VariableValue("v")) >>))),
       Method("value", <<"d">>, MethodBody(Return(VariableValue("d")))) >>

ProgramClasses ==
    << [name |-> "Base", methods |-> BaseMethods, parent |-> 0],
       [name |-> "Derived", methods |-> DerivedMethods, parent |-> 1] >>

\* the Closure the host hands to the top-level statements
InitialGlobals ==
    [k \in {"one", "none", "s", "yes", "no"} |->
        CASE k = "one" -> NumberHolder(1)
          [] k = "none" -> NoneHolder
          [] k = "s" -> StringHolder("s")
          [] k = "yes" -> BoolHolder(TRUE)
          [] k = "no" -> BoolHolder(FALSE)]

One == VariableValue("one")

\* a = Base() / b = a.make() / b = a.child / b = a.me() / b = none
AssignmentStatements ==
    << Assignment("a", NewInstance(1, <<>>)),
       Assignment("b", MethodCall(VariableValue("a"), "make", <<>>)),
       Assignment("b", DottedValue(<<"a", "child">>)),
       Assignment("b", MethodCall(VariableValue("a"), "me", <<>>)),
       Assignment("b", VariableValue("none")) >>

\* a.adopt() / a.child.kill(one) / a.make().value(one) / Base().set(one) /
\* b.kill(one) / a.nosuch()
MethodCallStatements ==
    << MethodCall(VariableValue("a"), "adopt", <<>>),
       MethodCall(DottedValue(<<"a", "child">>), "kill", <<One>>),
       MethodCall(MethodCall(VariableValue("a"), "make", <<>>), "value", <<One>>),
       MethodCall(NewInstance(1, <<>>), "set", <<One>>),
       MethodCall(VariableValue("b"), "kill", <<One>>),
       MethodCall(VariableValue("a"), "nosuch", <<>>) >>

\* a.v = one / b.v = a
FieldAssignmentStatements ==
    << FieldAssignment(VariableValue("a"), "v", One),
       FieldAssignment(VariableValue("b"), "v", VariableValue("a")) >>

\* print a, one, none / print b
PrintStatements ==
    << PrintStatement(<<VariableValue("a"), One, VariableValue("none")>>),
       PrintStatement(<<VariableValue("b")>>) >>

(***************************************************************************)
(* The host program: it executes top-level statements on the global        *)
(* closure, one at a time, and calls methods of instances directly.        *)
(***************************************************************************)
MaxSteps == 4
MaxInst == 3

NoQuery == [cls |-> 0, name |-> "", found |-> NoMethod]
NotExecuted == [kind |-> "none", index |-> 0, inst |-> 0, name |-> "", argc |-> 0,
                path |-> <<>>, leaf |-> ""]

\* the runtime before the first statement
RuntimeInit ==
    /\ query = NoQuery
    /\ heap = <<>>
    /\ globals = InitialGlobals
    /\ output = ""
    /\ next_id = 0
    /\ executed = NotExecuted
    /\ result = NoneHolder
    /\ outcome = "none"
    /\ what = ""
    /\ steps = 0
    /\ unowned_self = FALSE

Machine == [heap |-> heap, out |-> output, nid |-> next_id, ub |-> FALSE, unowned |-> FALSE]

\* the state the host is left in when the call r came back from: the holder
\* returned is kept in result until the next statement, where it is destroyed.
\* An evaluation that ran into undefined behaviour may have had the effects
\* of the code as written or have stopped before any of them.
Finished(r, done) ==
    /\ Len(r.m.heap) <= MaxInst
    /\ executed' = done
    /\ steps' = steps + 1
    /\ unowned_self' = (unowned_self \/ r.m.unowned)
    /\ IF r.m.ub
       THEN /\ outcome' = "undefined"
            /\ what' = ""
            /\ \E stopped \in BOOLEAN :
                 IF stopped
                 THEN /\ result' = NoneHolder
                      /\ UNCHANGED <<heap, globals, output, next_id>>
                 ELSE /\ result' = r.val
                      /\ heap' = r.m.heap
                      /\ globals' = r.clo
                      /\ output' = r.m.out
                      /\ next_id' = r.m.nid
       ELSE /\ outcome' = IF r.kind = "return" THEN "uncaught" ELSE r.kind
            /\ what' = r.msg
            /\ result' = r.val
            /\ heap' = r.m.heap
            /\ globals' = r.clo
            /\ output' = r.m.out
            /\ next_id' = r.m.nid

\* the machine a statement starts on: the holder the previous one returned
\* is gone
Ready == Release(Machine, result)

CanStep == steps < MaxSteps /\ outcome # "undefined"

Top(kind, i) == [NotExecuted EXCEPT !.kind = kind, !.index = i]

StepAssignment ==
    /\ CanStep
    /\ \E i \in 1..Len(AssignmentStatements) :
         Finished(Execute(AssignmentStatements[i], globals, Ready), Top("Assignment", i))
    /\ UNCHANGED <<lexvars, classes, query>>

StepMethodCall ==
    /\ CanStep
    /\ \E i \in 1..Len(MethodCallStatements) :
         Finished(Execute(MethodCallStatements[i], globals, Ready), Top("MethodCall", i))
    /\ UNCHANGED <<lexvars, classes, query>>

StepFieldAssignment ==
    /\ CanStep
    /\ \E i \in 1..Len(FieldAssignmentStatements) :
         Finished(Execute(FieldAssignmentStatements[i], globals, Ready),
                  Top("FieldAssignment", i))
    /\ UNCHANGED <<lexvars, classes, query>>

StepPrint ==
    /\ CanStep
    /\ \E i \in 1..Len(PrintStatements) :
         Finished(Execute(PrintStatements[i], globals, Ready), Top("Print", i))
    /\ UNCHANGED <<lexvars, classes, query>>

\* the names and the numbers of actuals the host calls ClassInstance::Call with
CallNames == {"value", "set", "kill", "nosuch"}
MaxActuals == 1

Actuals(n) == [k \in 1..n |-> NumberHolder(k)]

\* ClassInstance::Call from the host, on an instance some holder owns
StepCall ==
    /\ CanStep
    /\ \E i \in 1..Len(heap), name \in CallNames, n \in 0..MaxActuals :
         /\ Alive(Ready, i)
         /\ Finished(InClosure(Call(i, name, Actuals(n), Ready), globals),
                      [NotExecuted EXCEPT !.kind = "Call", !.inst = i, !.name = name,
                                          !.argc = n])
    /\ UNCHANGED <<lexvars, classes, query>>

EvalNext ==
    \/ StepAssignment
    \/ StepMethodCall
    \/ StepFieldAssignment
    \/ StepPrint
    \/ StepCall

(***************************************************************************)
(* The specifications.  Each runs one part of the program and leaves the   *)
(* variables of the others as they start.                                  *)
(***************************************************************************)
\* no Lexer is constructed
NoLexer ==
    /\ src = <<>>
    /\ input_ = <<>>
    /\ tokens_ = <<>>
    /\ cur_token_ = 0
    /\ cur_indent_ = 0
    /\ constructed = FALSE
    /\ op = "none"
    /\ status = "ok"
    /\ errmsg = ""
    /\ ret = Tok("none")
    /\ hist = <<>>
    /\ eof_returned = FALSE
    /\ thrown = FALSE

LexSpecInit == LexInit /\ classes = ProgramClasses /\ RuntimeInit

LexSpec == LexSpecInit /\ [][LexNext]_vars

EvalInit == NoLexer /\ classes = ProgramClasses /\ RuntimeInit

EvalSpec == EvalInit /\ [][EvalNext]_vars

(***************************************************************************)
(* ClassSpec: Class::GetMethod on the classes of a hierarchy.              *)
(***************************************************************************)
MaxClasses == 3

\* the methods a class of the hierarchy is constructed with, by name
MethodLists == { <<>>, <<"f">>, <<"g">>, <<"f", "g">>, <<"f", "f">> }
MethodNames == {"f", "g", "h"}

\* the method at position k of class c: its body tells it from every other
StubMethod(name, c, k) ==
    Method(name, <<>>, MethodBody(Return(VariableValue(ToString(c) \o "." \o ToString(k)))))

\* the hierarchies of n classes: a class is constructed after its parent
RECURSIVE ClassTables(_)
ClassTables(n) ==
    IF n = 0 THEN {<<>>}
    ELSE { Append(t, [name |-> "C" \o ToString(n),
                      methods |-> [k \in 1..Len(ml) |-> StubMethod(ml[k], n, k)],
                      parent |-> p]) :
             t \in ClassTables(n - 1), ml \in MethodLists, p \in 0..(n - 1) }

ClassInit == NoLexer /\ classes \in ClassTables(MaxClasses) /\ RuntimeInit

\* a call of Class::GetMethod
Lookup ==
    /\ \E c \in 1..Len(classes), name \in MethodNames :
         query' = [cls |-> c, name |-> name, found |-> GetMethod(classes, c, name)]
    /\ UNCHANGED <<lexvars, classes, heap, globals, output, next_id, executed, result,
                   outcome, what, steps, unowned_self>>

ClassNext == Lookup

ClassSpec == ClassInit /\ [][ClassNext]_vars

\* the class, its parent, the parent of that, and so on to the root
RECURSIVE Chain(_, _)
Chain(table, c) ==
    <<c>> \o (IF table[c].parent = 0 THEN <<>> ELSE Chain(table, table[c].parent))

Defines(table, c, name) == \E k \in 1..Len(table[c].methods) : table[c].methods[k].name = name

\* the positions in the chain of c of the classes that define name
Definers(table, c, name) ==
    {k \in 1..Len(Chain(table, c)) : Defines(table, Chain(table, c)[k], name)}

Nearest(table, c, name) ==
    Chain(table, c)[CHOOSE k \in Definers(table, c, name) :
                        \A j \in Definers(table, c, name) : k <= j]

\* C9: GetMethod(n) on a class returns a method of the nearest class in the
\* chain class, parent, grandparent, ... that defines a method named n, the
\* name of the method returned is n, and it returns nothing exactly when no
\* class of the chain defines n.
C9_NearestDefinition ==
    query.cls # 0 =>
        IF Definers(classes, query.cls, query.name) = {}
        THEN query.found = NoMethod
        ELSE /\ query.found # NoMethod
             /\ query.found.cls = Nearest(classes, query.cls, query.name)
             /\ MethodOf(classes, query.found).name = query.name

\* a lookup that passes a class without the method and stops at one that has
\* it while a farther ancestor has it too
C9_Witness ==
    /\ query.cls # 0
    /\ Cardinality(Definers(classes, query.cls, query.name)) >= 2
    /\ 1 \notin Definers(classes, query.cls, query.name)
    /\ query.found.cls = Nearest(classes, query.cls, query.name)

(***************************************************************************)
(* BodySpec: MethodBody::Execute on method bodies that hold a statement    *)
(* inside nested Compound and IfElse nodes.                                *)
(***************************************************************************)
MaxDepth == 3

RECURSIVE Paths(_)
Paths(n) ==
    IF n = 0 THEN {<<>>}
    ELSE {<<>>} \cup { <<h>> \o t : h \in {"Compound", "Then", "Else"}, t \in Paths(n - 1) }

Leaves == {"Return", "NoReturn", "Call"}
ReturnVars == {"one", "s", "none"}

\* print yes / print no / print none: they print True, False and None
Before == PrintStatement(<<VariableValue("yes")>>)
After == PrintStatement(<<VariableValue("no")>>)
NotTaken == PrintStatement(<<VariableValue("none")>>)

\* return var / r = var / r = Base().inner(var)
Leaf(leaf, var) ==
    CASE leaf = "Return" -> Return(VariableValue(var))
      [] leaf = "NoReturn" -> Assignment("r", VariableValue(var))
      [] leaf = "Call" ->
           Assignment("r", MethodCall(NewInstance(1, <<>>), "inner", <<VariableValue(var)>>))

\* the statement leaf below the nodes path names, outermost first: a Compound
\* holds Before in front of it and After behind it, an IfElse holds it in the
\* branch taken and NotTaken in the other
RECURSIVE Build(_, _, _)
Build(path, leaf, var) ==
    IF path = <<>> THEN Leaf(leaf, var)
    ELSE IF Head(path) = "Compound"
    THEN Compound(<<Before, Build(Tail(path), leaf, var), After>>)
    ELSE IF Head(path) = "Then"
    THEN IfElse(VariableValue("yes"), Build(Tail(path), leaf, var), NotTaken)
    ELSE IfElse(VariableValue("no"), NotTaken, Build(Tail(path), leaf, var))

\* MethodBody::Execute from the host, on the global closure
StepMethodBody ==
    /\ steps = 0
    /\ \E path \in Paths(MaxDepth), leaf \in Leaves, var \in ReturnVars :
         Finished(Execute(MethodBody(Build(path, leaf, var)), globals, Ready),
                  [NotExecuted EXCEPT !.kind = "MethodBody", !.path = path, !.leaf = leaf,
                                      !.name = var])
    /\ UNCHANGED <<lexvars, classes, query>>

BodyNext == StepMethodBody

BodySpec == EvalInit /\ [][BodyNext]_vars

RECURSIVE Times(_, _)
Times(text, n) == IF n = 0 THEN "" ELSE text \o Times(text, n - 1)

Compounds(path) == Cardinality({k \in 1..Len(path) : path[k] = "Compound"})

\* what the method inner of the leaf Call prints and returns: it returns its
\* argument if that is true, and prints it and returns nothing if not
InnerPrints(var) == IF var = "none" THEN "None\n" ELSE ""
InnerReturns(var) == IF var = "none" THEN NoneHolder ELSE InitialGlobals[var]

\* C7: a MethodBody whose body executes a Return below any nesting of
\* Compound and IfElse yields the value of the Return's expression, and no
\* statement after the Return is executed (only the statements in front of
\* it have printed); a Return inside a method the body calls ends that method only,
\* and the calling body goes on; a MethodBody in which no Return is executed
\* yields None.
C7_ReturnEndsMethodBody ==
    [][ executed'.kind = "MethodBody" =>
          LET path == executed'.path
              var == executed'.name
              pre == Times("True\n", Compounds(path))
              post == Times("False\n", Compounds(path))
          IN  /\ outcome' = "value"
              /\ executed'.leaf = "Return" =>
                    /\ result' = globals[var]
                    /\ output' = output \o pre
              /\ executed'.leaf = "NoReturn" =>
                    /\ result' = NoneHolder
                    /\ output' = output \o pre \o post
                    /\ globals'["r"] = globals[var]
              /\ executed'.leaf = "Call" =>
                    /\ result' = NoneHolder
                    /\ output' = output \o pre \o InnerPrints(var) \o post
                    /\ globals'["r"] = InnerReturns(var)
      ]_vars

\* a Return two levels down, below a Compound and an else branch, has ended
\* the method body with its value
C7_Witness ==
    /\ executed.kind = "MethodBody"
    /\ executed.leaf = "Return"
    /\ Len(executed.path) >= 2
    /\ \E j, k \in 1..Len(executed.path) :
         executed.path[j] = "Compound" /\ executed.path[k] = "Else"
    /\ result = StringHolder("s")
    /\ output # ""

(***************************************************************************)
(* Properties of EvalSpec.                                                 *)
(***************************************************************************)
\* C8: while a method runs on an instance, some holder owns the instance,
\* however the receiver of the call was produced: no method body has
\* returned to find its instance destroyed.
C8_SelfIsOwned == ~unowned_self

\* the method named name of class c
MethodNamed(table, c, name) ==
    table[c].methods[CHOOSE k \in 1..Len(table[c].methods) : table[c].methods[k].name = name]

\* the call cannot be made: no class of the chain defines the name, or the
\* nearest that does defines it with another number of parameters
Unresolved(table, c, name, argc) ==
    \/ Definers(table, c, name) = {}
    \/ Len(MethodNamed(table, Nearest(table, c, name), name).formal_params) # argc

\* C10: ClassInstance::Call with a name the chain of the instance's class does
\* not define, or with a number of actuals other than the number of
\* parameters of the nearest definition, throws "Error call <name>.", and
\* writes nothing and changes no closure and no instance.
C10_ErrorCall ==
    [][ (executed'.kind = "Call"
         /\ Unresolved(classes, heap[executed'.inst].cls, executed'.name, executed'.argc)) =>
          /\ outcome' = "error"
          /\ what' = "Error call " \o executed'.name \o "."
          /\ output' = output
          /\ globals' = globals
          /\ heap' = Ready.heap
      ]_vars

\* the call value() on an instance of Derived, which defines value with one
\* parameter while Base defines it with none, has failed
C10_Witness ==
    /\ executed.kind = "Call"
    /\ executed.name = "value"
    /\ executed.argc = 0
    /\ heap[executed.inst].cls = 2
    /\ outcome = "error"
    /\ what = "Error call value."

(***************************************************************************)
(* Programs that start from a set-up: the classes of the program and the   *)
(* state the global closure is in once the set-up statement has run.       *)
(***************************************************************************)
EmptyMachine == [heap |-> <<>>, out |-> "", nid |-> 0, ub |-> FALSE, unowned |-> FALSE]

\* the state the host is in when the set-up ended as r
StartsAs(r) ==
    /\ heap = r.m.heap
    /\ globals = r.clo
    /\ output = ""
    /\ next_id = r.m.nid
    /\ query = NoQuery
    /\ executed = NotExecuted
    /\ result = NoneHolder
    /\ outcome = "none"
    /\ what = ""
    /\ steps = 0
    /\ unowned_self = FALSE

ProgramInit(table, setup) ==
    /\ NoLexer
    /\ classes = table
    /\ StartsAs(Execute(setup, InitialGlobals, EmptyMachine))

\* the sequences of length 0..n over the set S
RECURSIVE SeqsUpTo(_, _)
SeqsUpTo(S, n) ==
    IF n = 0 THEN {<<>>}
    ELSE SeqsUpTo(S, n - 1) \cup { Append(t, x) : t \in {u \in SeqsUpTo(S, n - 1) : Len(u) = n - 1},
                                                   x \in S }

Variables(names) == [k \in 1..Len(names) |-> VariableValue(names[k])]

(***************************************************************************)
(* ScopeSpec: methods that read or write one name, called from the global  *)
(* closure with actuals taken from it.                                     *)
(***************************************************************************)
MaxFormals == 2

ProbeNames == <<"self", "p", "q", "a", "one", "zz">>
ProbeOps == <<"read", "write", "relay">>
Formals(n) == SubSeq(<<"p", "q", "r", "t">>, 1, n)

ProbeName(probe, x, n) == probe \o "_" \o x \o "_" \o ToString(n)

\* read:  def read_x_n(self, p, ..): return x
\* write: def write_x_n(self, p, ..):
\*          x = self
\*          return x
\* relay: def relay_x_n(self, p, ..): return self.read_x_0()
ProbeMethod(probe, x, n) ==
    Method(ProbeName(probe, x, n), Formals(n),
           MethodBody(CASE probe = "read" -> Return(VariableValue(x))
                        [] probe = "write" ->
                             Compound(<<Assignment(x, Self), Return(VariableValue(x))>>)
                        [] probe = "relay" ->
                             Return(MethodCall(Self, ProbeName("read", x, 0), <<>>))))

ProbeMethods ==
    [k \in 1..(Len(ProbeOps) * Len(ProbeNames) * (MaxFormals + 1)) |->
        ProbeMethod(ProbeOps[((k - 1) \div ((MaxFormals + 1) * Len(ProbeNames))) + 1],
                    ProbeNames[(((k - 1) \div (MaxFormals + 1)) % Len(ProbeNames)) + 1],
                    (k - 1) % (MaxFormals + 1))]

ScopeClasses == << [name |-> "Probe", methods |-> ProbeMethods, parent |-> 0] >>

\* a = Probe()
\* b = Probe()
TwoInstances ==
    Compound(<<Assignment("a", NewInstance(1, <<>>)), Assignment("b", NewInstance(1, <<>>))>>)

ScopeInit == ProgramInit(ScopeClasses, TwoInstances)

ActualNames == {"one", "s", "yes"}

\* <receiver>.<probe>_<x>_<n>(<actuals>) from the host, on the global closure
StepProbe ==
    /\ steps = 0
    /\ \E receiver \in {"a", "b"}, p \in 1..Len(ProbeOps), x \in 1..Len(ProbeNames),
          actuals \in SeqsUpTo(ActualNames, MaxFormals) :
         Finished(Execute(MethodCall(VariableValue(receiver),
                                     ProbeName(ProbeOps[p], ProbeNames[x], Len(actuals)),
                                     Variables(actuals)),
                          globals, Ready),
                  [NotExecuted EXCEPT !.kind = "Probe", !.inst = globals[receiver].ref,
                                      !.leaf = ProbeOps[p], !.name = ProbeNames[x],
                                      !.argc = Len(actuals), !.path = actuals])
    /\ UNCHANGED <<lexvars, classes, query>>

ScopeNext == StepProbe

ScopeSpec == ScopeInit /\ [][ScopeNext]_vars

\* the position of name x among the first n formal parameters (0: none)
FormalAt(x, n) ==
    IF \E k \in 1..n : Formals(n)[k] = x THEN CHOOSE k \in 1..n : Formals(n)[k] = x ELSE 0

\* C11: the body of a method runs in a scope of its own that holds self, bound
\* to a borrowing holder of the receiver, and the formal parameters, bound in
\* order to the actuals, and nothing else: a name of the caller's scope (the
\* global closure, or the scope of the calling method) is unknown to the
\* body, and what the body binds stays in its scope: the call leaves the
\* caller's scope, the instances and the output as they were.
C11_FreshLocalScope ==
    [][ executed'.kind = "Probe" =>
          LET x == executed'.name
              n == IF executed'.leaf = "relay" THEN 0 ELSE executed'.argc
              known == x = "self" \/ FormalAt(x, n) # 0
          IN  /\ globals' = globals
              /\ heap' = heap
              /\ output' = output
              /\ (executed'.leaf = "write" \/ x = "self") =>
                    outcome' = "value" /\ result' = Share(executed'.inst)
              /\ (executed'.leaf # "write" /\ FormalAt(x, n) # 0) =>
                    /\ outcome' = "value"
                    /\ result' = globals[executed'.path[FormalAt(x, n)]]
              /\ (executed'.leaf # "write" /\ ~known) =>
                    outcome' = "error" /\ what' = "Unknown variable " \o x
      ]_vars

\* a method that holds p in its scope has called another of the same instance,
\* whose body found p unknown
C11_Witness ==
    /\ executed.kind = "Probe"
    /\ executed.leaf = "relay"
    /\ executed.name = "p"
    /\ executed.argc = 2
    /\ executed.inst = 2
    /\ outcome = "error"
    /\ what = "Unknown variable p"

(***************************************************************************)
(* DispatchSpec: a MethodCall from the global closure whose receiver and   *)
(* arguments print a line each when they are evaluated.                    *)
(***************************************************************************)
\* class Log:
\*   def recv(self, v):
\*     print v
\*     return self
\*   def make(self): return Log()
\*   def echo(self, v):
\*     print v
\*     return v
\*   def m0(self): print
\*   def m1(self, p):
\*     print
\*     return p
\*   def m2(self, p, q):
\*     print
\*     return q
LogMethods ==
    << Method("recv", <<"v">>,
              MethodBody(Compound(<<PrintStatement(<<VariableValue("v")>>), Return(Self)>>))),
       Method("make", <<>>, MethodBody(Return(NewInstance(1, <<>>)))),
       Method("echo", <<"v">>,
              MethodBody(Compound(<<PrintStatement(<<VariableValue("v")>>),
                                    Return(VariableValue("v"))>>))),
       Method("m0", <<>>, MethodBody(PrintStatement(<<>>))),
       Method("m1", <<"p">>,
              MethodBody(Compound(<<PrintStatement(<<>>), Return(VariableValue("p"))>>))),
       Method("m2", <<"p", "q">>,
              MethodBody(Compound(<<PrintStatement(<<>>), Return(VariableValue("q"))>>))) >>

LogClasses == << [name |-> "Log", methods |-> LogMethods, parent |-> 0] >>

\* class Log: ...
\* a = Log()
OneInstance == Compound(<<ClassDefinition(1), Assignment("a", NewInstance(1, <<>>))>>)

DispatchInit == ProgramInit(LogClasses, OneInstance)

\* the receivers: a / a.recv(none) / Log() / a.make() / one / none / s / yes /
\* Log (the class)
Receivers == {"a", "recv", "new", "made", "one", "none", "s", "yes", "Log"}
InstanceReceivers == {"a", "recv", "new", "made"}

Receiver(k) ==
    CASE k = "recv" -> MethodCall(VariableValue("a"), "recv", <<VariableValue("none")>>)
      [] k = "new" -> NewInstance(1, <<>>)
      [] k = "made" -> MethodCall(VariableValue("a"), "make", <<>>)
      [] OTHER -> VariableValue(k)

\* the arguments: a.echo(yes) / a.echo(no) / one
Arguments == {"yes", "no", "one"}

Argument(k) ==
    IF k = "one" THEN One ELSE MethodCall(VariableValue("a"), "echo", <<VariableValue(k)>>)

MaxArgs == 2
DispatchNames == {"m0", "m1", "m2", "nosuch"}

\* <receiver>.<name>(<arguments>) from the host, on the global closure
StepDispatch ==
    /\ steps = 0
    /\ \E receiver \in Receivers, name \in DispatchNames,
          args \in SeqsUpTo(Arguments, MaxArgs) :
         Finished(Execute(MethodCall(Receiver(receiver), name,
                                     [k \in 1..Len(args) |-> Argument(args[k])]),
                          globals, Ready),
                  [NotExecuted EXCEPT !.kind = "Dispatch", !.leaf = receiver, !.name = name,
                                      !.argc = Len(args), !.path = args])
    /\ UNCHANGED <<lexvars, classes, query>>

DispatchNext == StepDispatch

DispatchSpec == DispatchInit /\ [][DispatchNext]_vars

\* what the evaluation of the arguments prints, in their order
RECURSIVE ArgumentLines(_)
ArgumentLines(args) ==
    IF args = <<>> THEN ""
    ELSE (CASE Head(args) = "yes" -> "True\n"
            [] Head(args) = "no" -> "False\n"
            [] OTHER -> "") \o ArgumentLines(Tail(args))

\* C12: a MethodCall whose receiver is not an instance, or is an instance
\* without a method of the name and the number of arguments, returns None,
\* raises nothing and evaluates no argument (only the receiver has printed);
\* otherwise the arguments are evaluated once each, from left to right, after
\* the receiver and before the body, and the call returns what the method
\* returns.
C12_DispatchOrNone ==
    [][ executed'.kind = "Dispatch" =>
          LET args == executed'.path
              receiver == IF executed'.leaf = "recv" THEN "None\n" ELSE ""
              matches == /\ executed'.leaf \in InstanceReceivers
                         /\ executed'.name = "m" \o ToString(Len(args))
          IN  /\ outcome' = "value"
              /\ ~matches => result' = NoneHolder /\ output' = output \o receiver
              /\ matches =>
                    /\ output' = output \o receiver \o ArgumentLines(args) \o "\n"
                    /\ result' = IF args = <<>> THEN NoneHolder
                                 ELSE globals[args[Len(args)]]
      ]_vars

(***************************************************************************)
(* NewSpec: NewInstance nodes evaluated one after another on the global    *)
(* closure.                                                                *)
(***************************************************************************)
\* class Plain: (no method)
\* class Point:
\*   def __init__(self, v):
\*     print
\*     self.v = v
\* class Sub(Point): (no method)
PointMethods ==
    << Method("__init__", <<"v">>,
              MethodBody(Compound(<<PrintStatement(<<>>),
                                    FieldAssignment(Self, "v", VariableValue("v"))>>))) >>

NewClasses ==
    << [name |-> "Plain", methods |-> <<>>, parent |-> 0],
       [name |-> "Point", methods |-> PointMethods, parent |-> 0],
       [name |-> "Sub", methods |-> <<>>, parent |-> 2] >>

NewInit == ProgramInit(NewClasses, Compound(<<>>))

\* the arguments: one / Plain()
NewArguments == {"one", "new"}

NewArgument(k) == IF k = "new" THEN NewInstance(1, <<>>) ELSE VariableValue(k)

\* <class>(<arguments>) from the host, on the global closure
StepNewInstance ==
    /\ CanStep
    /\ \E c \in 1..Len(classes), args \in SeqsUpTo(NewArguments, MaxArgs) :
         Finished(Execute(NewInstance(c, [k \in 1..Len(args) |-> NewArgument(args[k])]),
                          globals, Ready),
                  [NotExecuted EXCEPT !.kind = "NewInstance", !.index = c,
                                      !.argc = Len(args), !.path = args])
    /\ UNCHANGED <<lexvars, classes, query>>

NewNext == StepNewInstance

NewSpec == NewInit /\ [][NewNext]_vars

\* C13: an evaluation of NewInstance makes one more instance, of the class of
\* the node and without fields, stores an owning holder of it in the closure
\* under a key that was not bound there, so that every earlier binding and
\* instance stays as it was, and returns a holder of it; it calls __init__,
\* once, exactly when the class or an ancestor defines __init__ with as many
\* parameters as the node has arguments, and evaluates no argument when not.
C13_NewInstance ==
    [][ executed'.kind = "NewInstance" =>
          LET c == executed'.index
              args == executed'.path
              i == Len(heap) + 1
              inits == c \in {2, 3} /\ Len(args) = 1
              made == IF inits /\ args[1] = "new" THEN 2 ELSE 1
          IN  /\ outcome' = "value"
              /\ result' = Own(i)
              /\ Len(heap') = Len(heap) + made
              /\ \A j \in 1..Len(heap) : heap'[j] = Ready.heap[j]
              /\ \A k \in DOMAIN globals : k \in DOMAIN globals' /\ globals'[k] = globals[k]
              /\ Cardinality(DOMAIN globals' \ DOMAIN globals) = made
              /\ \E k \in DOMAIN globals' \ DOMAIN globals : globals'[k] = Own(i)
              /\ heap'[i].alive
              /\ heap'[i].cls = c
              /\ heap'[i].rc = 2
              /\ ~inits => heap'[i].fields = EmptyClosure /\ output' = output
              /\ inits =>
                    /\ output' = output \o "\n"
                    /\ DOMAIN heap'[i].fields = {"v"}
                    /\ heap'[i].fields["v"] = IF args[1] = "new" THEN Own(i + 1)
                                              ELSE globals[args[1]]
      ]_vars

\* the node Sub(one) evaluated a second time: both instances are bound, and
\* __init__ of Point has run once for each
C13_Witness ==
    /\ executed.kind = "NewInstance"
    /\ executed.index = 3
    /\ executed.path = <<"one">>
    /\ Len(heap) = 2
    /\ heap[1].cls = 3
    /\ heap[1].alive
    /\ output = "\n\n"
    /\ Cardinality({k \in DOMAIN globals : globals[k].tag = "Instance"}) = 2

(***************************************************************************)
(* Properties of EvalSpec: FieldAssignment.                                *)
(***************************************************************************)
\* C14: a FieldAssignment whose object is bound to a value that is not an
\* instance fails with a runtime error and changes no closure and no field;
\* one whose object is an instance binds the field in the fields of that
\* instance to the value of the expression and returns that holder.
C14_FieldAssignment ==
    [][ (executed'.kind = "FieldAssignment"
         /\ FieldAssignmentStatements[executed'.index].object.name \in DOMAIN globals
         /\ FieldAssignmentStatements[executed'.index].rv.name \in DOMAIN globals) =>
          LET node == FieldAssignmentStatements[executed'.index]
              o == globals[node.object.name]
              v == globals[node.rv.name]
          IN  IF o.tag # "Instance"
              THEN /\ outcome' = "error"
                   /\ globals' = globals
                   /\ heap' = Ready.heap
                   /\ output' = output
              ELSE /\ outcome' = "value"
                   /\ result' = v
                   /\ node.field_name \in DOMAIN heap'[o.ref].fields
                   /\ heap'[o.ref].fields[node.field_name] = v
                   /\ globals' = globals
      ]_vars

(***************************************************************************)
(* TopSpec: the statements of BodySpec executed on the global closure      *)
(* without a MethodBody around them.                                       *)
(***************************************************************************)
\* Execute of a top-level statement from the host
StepTopLevel ==
    /\ steps = 0
    /\ \E path \in Paths(MaxDepth), leaf \in Leaves, var \in ReturnVars :
         Finished(Execute(Build(path, leaf, var), globals, Ready),
                  [NotExecuted EXCEPT !.kind = "TopLevel", !.path = path, !.leaf = leaf,
                                      !.name = var])
    /\ UNCHANGED <<lexvars, classes, query>>

TopNext == StepTopLevel

TopSpec == EvalInit /\ [][TopNext]_vars

EqMethods ==
    << Method("__eq__", <<"other">>, MethodBody(Return(VariableValue("other")))),
       Method("__lt__", <<"other">>, MethodBody(Return(VariableValue("other")))) >>

Eq0Methods ==
    << Method("__eq__", <<>>, MethodBody(Return(Self))),
       Method("__lt__", <<"a", "b">>, MethodBody(Return(VariableValue("a")))) >>

CompareClasses ==
    << [name |-> "Eq", methods |-> EqMethods, parent |-> 0],
       [name |-> "Plain", methods |-> <<>>, parent |-> 0],
       [name |-> "Eq0", methods |-> Eq0Methods, parent |-> 0] >>

\* e = Eq()
\* p = Plain()
\* z = Eq0()
ThreeInstances ==
    Compound(<<Assignment("e", NewInstance(1, <<>>)), Assignment("p", NewInstance(2, <<>>)),
               Assignment("z", NewInstance(3, <<>>))>>)

CompareInit == ProgramInit(CompareClasses, ThreeInstances)

\* the holders the host compares: values of its own, and the holders of the
\* global closure
Operands ==
    {NumberHolder(0), NumberHolder(1), BoolHolder(TRUE), BoolHolder(FALSE), StringHolder(""),
     StringHolder("s"), NoneHolder, ClassHolder(1)}
        \cup {globals[k] : k \in {"e", "p", "z"}}

Comparators == {"Equal", "Less", "NotEqual", "Greater", "LessOrEqual", "GreaterOrEqual"}

Compare(cmp, lhs, rhs, m) ==
    CASE cmp = "Equal" -> Equal(lhs, rhs, m)
      [] cmp = "Less" -> Less(lhs, rhs, m)
      [] cmp = "NotEqual" -> NotEqual(lhs, rhs, m)
      [] cmp = "Greater" -> Greater(lhs, rhs, m)
      [] cmp = "LessOrEqual" -> LessOrEqual(lhs, rhs, m)
      [] cmp = "GreaterOrEqual" -> GreaterOrEqual(lhs, rhs, m)

\* a comparator called by the host
StepCompare ==
    /\ steps = 0
    /\ \E cmp \in Comparators, lhs \in Operands, rhs \in Operands :
         Finished(InClosure(Compare(cmp, lhs, rhs, Ready), globals),
                  [NotExecuted EXCEPT !.kind = "Compare", !.name = cmp, !.path = <<lhs, rhs>>])
    /\ UNCHANGED <<lexvars, classes, query>>

CompareNext == StepCompare

CompareSpec == CompareInit /\ [][CompareNext]_vars

\* C16: Equal compares two Bools, two Numbers or two Strings by value;
\* failing that, for an lhs that is an instance with __eq__ of one parameter
\* it is the Bool lhs.__eq__(rhs) returns (here: rhs itself); failing that, it
\* is true for two empty holders; and it throws in every other case.
C16_EqualDispatch ==
    [][ (executed'.kind = "Compare" /\ executed'.name = "Equal") =>
          LET lhs == executed'.path[1]
              rhs == executed'.path[2]
              same == lhs.tag = rhs.tag /\ lhs.tag \in {"Bool", "Number", "String"}
              dispatches == lhs.tag = "Instance" /\ heap[lhs.ref].cls = 1
              empty == lhs.tag = "None" /\ rhs.tag = "None"
          IN  /\ same =>
                    /\ outcome' = "value"
                    /\ result' = BoolHolder(lhs.num = rhs.num /\ lhs.str = rhs.str)
              /\ (dispatches /\ rhs.tag = "Bool") => outcome' = "value" /\ result' = rhs
              /\ (~dispatches /\ empty) => outcome' = "value" /\ result' = BoolHolder(TRUE)
              /\ (~same /\ ~dispatches /\ ~empty) =>
                    /\ outcome' = "error"
                    /\ what' = "Cannot compare objects for equality"
              /\ (lhs = rhs /\ lhs.tag \in {"Bool", "Number", "String", "None"}) =>
                    outcome' = "value" /\ result' = BoolHolder(TRUE)
              /\ heap' = heap /\ globals' = globals /\ output' = output
      ]_vars

\* Equal of an instance with __eq__ and the Bool false has returned false
C16_Witness ==
    /\ executed.kind = "Compare"
    /\ executed.name = "Equal"
    /\ executed.path[1].tag = "Instance"
    /\ heap[executed.path[1].ref].cls = 1
    /\ executed.path[2] = BoolHolder(FALSE)
    /\ outcome = "value"
    /\ result = BoolHolder(FALSE)

\* C17: where Less and Equal both return, NotEqual is not Equal, Greater is
\* not Less and not Equal, LessOrEqual is not Greater, and GreaterOrEqual is
\* not Less; and a comparator derived from them throws only what a call of
\* Less or Equal that it makes throws.
C17_DerivedComparators ==
    [][ executed'.kind = "Compare" =>
          LET cmp == executed'.name
              lt == Less(executed'.path[1], executed'.path[2], Ready)
              eq == Equal(executed'.path[1], executed'.path[2], Ready)
              less == lt.val.num = 1
              equal == eq.val.num = 1
              greater == ~less /\ ~equal
          IN  /\ (lt.kind = "value" /\ ~lt.m.ub /\ eq.kind = "value" /\ ~eq.m.ub) =>
                    /\ outcome' = "value"
                    /\ result' = BoolHolder(CASE cmp = "Equal" -> equal
                                              [] cmp = "Less" -> less
                                              [] cmp = "NotEqual" -> ~equal
                                              [] cmp = "Greater" -> greater
                                              [] cmp = "LessOrEqual" -> ~greater
                                              [] cmp = "GreaterOrEqual" -> ~less)
              /\ (outcome' = "error" /\ cmp \in {"Equal", "NotEqual"}) =>
                    eq.kind = "error" /\ what' = eq.msg
              /\ (outcome' = "error" /\ cmp \in {"Less", "GreaterOrEqual"}) =>
                    lt.kind = "error" /\ what' = lt.msg
              /\ (outcome' = "error" /\ cmp \in {"Greater", "LessOrEqual"}) =>
                    \/ lt.kind = "error" /\ what' = lt.msg
                    \/ eq.kind = "error" /\ what' = eq.msg
      ]_vars

\* Greater of two equal Numbers has returned false
C17_Witness ==
    /\ executed.kind = "Compare"
    /\ executed.path = <<NumberHolder(1), NumberHolder(1)>>
    /\ executed.name = "Greater"
    /\ result = BoolHolder(FALSE)
    /\ outcome = "value"

\* C24: no comparison dereferences an empty holder or a failed downcast: a
\* comparator whose __eq__ or __lt__ returns an object that is not a Bool
\* returns a value or throws a runtime error, and so does every other one.
C24_NoEmptyDereference == outcome \in {"none", "value", "error"}

(***************************************************************************)
(* LogicSpec: Or, And and Not nodes over operands that print a line when   *)
(* they are evaluated.                                                     *)
(***************************************************************************)
\* the operands: a.echo(yes) / a.echo(no) / a.echo(none), which print their
\* value, and one / s / a / Log (the class)
PrintingOperands == {"yes", "no", "none"}
Conditions == PrintingOperands \cup {"one", "s", "a", "Log"}

Operand(k) ==
    IF k \in PrintingOperands
    THEN MethodCall(VariableValue("a"), "echo", <<VariableValue(k)>>)
    ELSE VariableValue(k)

\* an Or, an And or a Not node from the host, on the global closure
StepLogic ==
    /\ steps = 0
    /\ \E lhs \in Conditions :
         \/ \E rhs \in Conditions :
              \/ Finished(Execute(Or(Operand(lhs), Operand(rhs)), globals, Ready),
                          [NotExecuted EXCEPT !.kind = "Logic", !.name = "Or",
                                              !.path = <<lhs, rhs>>])
              \/ Finished(Execute(And(Operand(lhs), Operand(rhs)), globals, Ready),
                          [NotExecuted EXCEPT !.kind = "Logic", !.name = "And",
                                              !.path = <<lhs, rhs>>])
         \/ Finished(Execute(Not(Operand(lhs)), globals, Ready),
                     [NotExecuted EXCEPT !.kind = "Logic", !.name = "Not", !.path = <<lhs>>])
    /\ UNCHANGED <<lexvars, classes, query>>

LogicNext == StepLogic

LogicSpec == DispatchInit /\ [][LogicNext]_vars

\* the line an operand prints when it is evaluated
OperandLine(k) ==
    CASE k = "yes" -> "True\n"
      [] k = "no" -> "False\n"
      [] k = "none" -> "None\n"
      [] OTHER -> ""

\* the operands that are true: the Bool true, the Number 1, the String "s"
Truthy == {"yes", "one", "s"}

\* C18: And and Or evaluate the left operand and then the right one, once
\* each, whatever the left one is; with two operands that are not None the
\* result is the Bool IsTrue(lhs) and IsTrue(rhs), or IsTrue(lhs) or
\* IsTrue(rhs); with an operand that is None the node throws.  Not throws
\* on None and returns the Bool not IsTrue(arg) otherwise.
C18_EagerLogic ==
    [][ executed'.kind = "Logic" =>
          LET lhs == executed'.path[1]
              rhs == executed'.path[2]
          IN  IF executed'.name = "Not"
              THEN /\ output' = output \o OperandLine(lhs)
                   /\ lhs # "none" =>
                         outcome' = "value" /\ result' = BoolHolder(lhs \notin Truthy)
                   /\ lhs = "none" =>
                         /\ outcome' = "error"
                         /\ what' = "'Not' is not implemented for this argument"
              ELSE /\ output' = output \o OperandLine(lhs) \o OperandLine(rhs)
                   /\ (lhs # "none" /\ rhs # "none") =>
                         /\ outcome' = "value"
                         /\ result' = BoolHolder(IF executed'.name = "Or"
                                                 THEN lhs \in Truthy \/ rhs \in Truthy
                                                 ELSE lhs \in Truthy /\ rhs \in Truthy)
                   /\ (lhs = "none" \/ rhs = "none") =>
                         /\ outcome' = "error"
                         /\ what' = "'" \o executed'.name
                                        \o "' is not implemented for these operands"
      ]_vars

\* an Or whose left operand is true has evaluated its right operand too
C18_Witness ==
    /\ executed.kind = "Logic"
    /\ executed.name = "Or"
    /\ executed.path = <<"yes", "no">>
    /\ output = "True\nFalse\n"
    /\ result = BoolHolder(TRUE)

(***************************************************************************)
(* TruthSpec: IfElse nodes over conditions of every kind of object.        *)
(***************************************************************************)
\* the globals of the program: the empty holder, Numbers -1, 0 and 1, the two
\* Bools, the Strings "" and "s"
TruthGlobals ==
    [k \in {"none", "neg", "zero", "one", "yes", "no", "empty", "s"} |->
        CASE k = "none" -> NoneHolder
          [] k = "neg" -> NumberHolder(-1)
          [] k = "zero" -> NumberHolder(0)
          [] k = "one" -> NumberHolder(1)
          [] k = "yes" -> BoolHolder(TRUE)
          [] k = "no" -> BoolHolder(FALSE)
          [] k = "empty" -> StringHolder("")
          [] k = "s" -> StringHolder("s")]

\* class Log: ...
\* a = Log()
TruthInit ==
    /\ NoLexer
    /\ classes = LogClasses
    /\ StartsAs(Execute(OneInstance, TruthGlobals, EmptyMachine))

\* the conditions: the globals, the instance a and the class Log
TruthConditions == DOMAIN TruthGlobals \cup {"a", "Log"}

\* if <condition>: print yes        if <condition>: print yes
\*                                  else: print no
StepIfElse ==
    /\ CanStep
    /\ \E c \in TruthConditions :
         \/ Finished(Execute(IfElse(VariableValue(c),
                                    PrintStatement(<<VariableValue("yes")>>), NoStatement),
                             globals, Ready),
                     [NotExecuted EXCEPT !.kind = "IfElse", !.name = c, !.leaf = "if"])
         \/ Finished(Execute(IfElse(VariableValue(c),
                                    PrintStatement(<<VariableValue("yes")>>),
                                    PrintStatement(<<VariableValue("no")>>)),
                             globals, Ready),
                     [NotExecuted EXCEPT !.kind = "IfElse", !.name = c, !.leaf = "else"])
    /\ UNCHANGED <<lexvars, classes, query>>

TruthNext == StepIfElse

TruthSpec == TruthInit /\ [][TruthNext]_vars

\* a Number that is not 0, the Bool true, a String that is not empty
TrueValue(h) ==
    \/ h.tag = "Number" /\ h.num # 0
    \/ h.tag = "Bool" /\ h = BoolHolder(TRUE)
    \/ h.tag = "String" /\ h.str # ""

\* C19: IsTrue is true exactly of a Number that is not 0, the Bool true and
\* a String that is not empty, and false of the empty holder, 0, false, "",
\* a class and an instance; an IfElse whose condition is not true runs its
\* else branch, and returns None without running anything when it has none.
C19_IsTrue ==
    [][ executed'.kind = "IfElse" =>
          LET h == globals[executed'.name]
          IN  /\ IsTrue(h) = TrueValue(h)
              /\ h.tag \in {"None", "Class", "Instance"} => ~IsTrue(h)
              /\ outcome' = "value"
              /\ result' = NoneHolder
              /\ output' = output \o (IF TrueValue(h) THEN "True\n"
                                      ELSE IF executed'.leaf = "else" THEN "False\n"
                                      ELSE "")
      ]_vars

\* an IfElse on an instance has run its else branch
C19_Witness ==
    /\ executed.kind = "IfElse"
    /\ executed.name = "a"
    /\ executed.leaf = "else"
    /\ globals["a"].tag = "Instance"
    /\ output = "False\n"

(***************************************************************************)
(* PrintSpec: Print nodes with 0..MaxArgs arguments of every kind.         *)
(***************************************************************************)
\* class Text:
\*   def __init__(self, v): self.v = v
\*   def __str__(self): return self.v
TextMethods ==
    << Method("__init__", <<"v">>, MethodBody(FieldAssignment(Self, "v", VariableValue("v")))),
       Method("__str__", <<>>, MethodBody(Return(DottedValue(<<"self", "v">>)))) >>

PrintClasses ==
    << [name |-> "Log", methods |-> LogMethods, parent |-> 0],
       [name |-> "Text", methods |-> TextMethods, parent |-> 0] >>

\* class Log: ...
\* class Text: ...
\* a = Log()
\* t = Text(s)
\* n = Text(none)
PrintSetup ==
    Compound(<< ClassDefinition(1), ClassDefinition(2),
                Assignment("a", NewInstance(1, <<>>)),
                Assignment("t", NewInstance(2, <<VariableValue("s")>>)),
                Assignment("n", NewInstance(2, <<VariableValue("none")>>)) >>)

PrintInit == ProgramInit(PrintClasses, PrintSetup)

\* the arguments: a.echo(yes) and a.echo(none), which print a line when they
\* are evaluated, and the variables
EchoArguments == {"echo yes", "echo none"}
PrintArguments == EchoArguments \cup {"yes", "no", "none", "one", "s", "Log", "a", "t", "n"}

PrintArgument(k) ==
    CASE k = "echo yes" -> MethodCall(VariableValue("a"), "echo", <<VariableValue("yes")>>)
      [] k = "echo none" -> MethodCall(VariableValue("a"), "echo", <<VariableValue("none")>>)
      [] OTHER -> VariableValue(k)

\* a Print node from the host, on the global closure
StepPrintArgs ==
    /\ steps = 0
    /\ \E names \in SeqsUpTo(PrintArguments, MaxArgs) :
         Finished(Execute(PrintStatement([k \in 1..Len(names) |-> PrintArgument(names[k])]),
                          globals, Ready),
                  [NotExecuted EXCEPT !.kind = "Print", !.argc = Len(names), !.path = names])
    /\ UNCHANGED <<lexvars, classes, query>>

PrintNext == StepPrintArgs

PrintSpec == PrintInit /\ [][PrintNext]_vars

\* what the evaluation of an argument writes
EvaluationLine(k) ==
    CASE k = "echo yes" -> "True\n"
      [] k = "echo none" -> "None\n"
      [] OTHER -> ""

\* the printed form of an argument: of the value for a value, None for the
\* empty holder, of what __str__ returns for an instance of Text, the
\* identity of the instance for an instance of Log
PrintedForm(k) ==
    CASE k \in {"yes", "echo yes"} -> "True"
      [] k = "no" -> "False"
      [] k \in {"none", "echo none"} -> "None"
      [] k = "one" -> "1"
      [] k = "s" -> "s"
      [] k = "Log" -> "Class Log"
      [] k = "a" -> "@" \o ToString(globals["a"].ref)
      [] k = "t" -> "s"
      [] k = "n" -> "None"

\* the output of Print from argument i of names on
RECURSIVE Printed(_, _)
Printed(names, i) ==
    IF i > Len(names) THEN "\n"
    ELSE EvaluationLine(names[i]) \o PrintedForm(names[i])
             \o (IF i < Len(names) THEN " " ELSE "") \o Printed(names, i + 1)

\* C20: Print evaluates its arguments in source order and writes their
\* printed forms in that order, one space between two of them and one
\* newline at the end, None for an empty holder, what __str__ returns for
\* an instance that has one; it returns None.
C20_Print ==
    [][ executed'.kind = "Print" =>
          /\ outcome' = "value"
          /\ result' = NoneHolder
          /\ output' = output \o Printed(executed'.path, 1)
      ]_vars

(***************************************************************************)
(* ArithSpec: Sub, Mult and Div nodes over operands of every kind.         *)
(***************************************************************************)
\* class Num: the methods of Log and
\*   def __sub__(self, v):
\*     print
\*     return v
\*   (the same for __mul__, __div__ and __truediv__)
HookNames == <<"__sub__", "__mul__", "__div__", "__truediv__">>

NumMethods ==
    LogMethods \o
    [k \in 1..Len(HookNames) |->
        Method(HookNames[k], <<"v">>,
               MethodBody(Compound(<<PrintStatement(<<>>), Return(VariableValue("v"))>>)))]

NumClasses == << [name |-> "Num", methods |-> NumMethods, parent |-> 0] >>

\* the globals of the program: Numbers, the empty holder, a String, a Bool
ArithGlobals ==
    [k \in {"min", "m7", "neg", "zero", "one", "two", "seven", "max", "none", "s", "yes"} |->
        CASE k = "min" -> NumberHolder(IntMin)
          [] k = "m7" -> NumberHolder(-7)
          [] k = "neg" -> NumberHolder(-1)
          [] k = "zero" -> NumberHolder(0)
          [] k = "one" -> NumberHolder(1)
          [] k = "two" -> NumberHolder(2)
          [] k = "seven" -> NumberHolder(7)
          [] k = "max" -> NumberHolder(IntMax)
          [] k = "none" -> NoneHolder
          [] k = "s" -> StringHolder("s")
          [] k = "yes" -> BoolHolder(TRUE)]

\* class Num: ...
\* a = Num()
ArithInit ==
    /\ NoLexer
    /\ classes = NumClasses
    /\ StartsAs(Execute(OneInstance, ArithGlobals, EmptyMachine))

\* the operands: the globals, the instance a, and a.echo(two), which prints
\* a line when it is evaluated
ArithOperands == DOMAIN ArithGlobals \cup {"a", "echo two"}

ArithOperand(k) ==
    IF k = "echo two" THEN MethodCall(VariableValue("a"), "echo", <<VariableValue("two")>>)
    ELSE VariableValue(k)

\* a Sub, a Mult or a Div node from the host, on the global closure
StepArithmetic ==
    /\ steps = 0
    /\ \E lhs \in ArithOperands, rhs \in ArithOperands :
         \/ Finished(Execute(Sub(ArithOperand(lhs), ArithOperand(rhs)), globals, Ready),
                     [NotExecuted EXCEPT !.kind = "Arith", !.name = "Sub",
                                         !.path = <<lhs, rhs>>])
         \/ Finished(Execute(Mult(ArithOperand(lhs), ArithOperand(rhs)), globals, Ready),
                     [NotExecuted EXCEPT !.kind = "Arith", !.name = "Mult",
                                         !.path = <<lhs, rhs>>])
         \/ Finished(Execute(Div(ArithOperand(lhs), ArithOperand(rhs)), globals, Ready),
                     [NotExecuted EXCEPT !.kind = "Arith", !.name = "Div",
                                         !.path = <<lhs, rhs>>])
    /\ UNCHANGED <<lexvars, classes, query>>

ArithNext == StepArithmetic

ArithSpec == ArithInit /\ [][ArithNext]_vars

\* the object an operand evaluates to
OperandValue(k) == IF k = "echo two" THEN NumberHolder(2) ELSE globals[k]

\* what the evaluation of an operand writes
ArithLine(k) == IF k = "echo two" THEN "2\n" ELSE ""

\* x is smaller than y in absolute value
AbsLess(x, y) == (IF x < 0 THEN x ELSE -x) > (IF y < 0 THEN y ELSE -y)

\* C21: Div evaluates both operands and returns the integer quotient when
\* both are Numbers and the right one is not 0, and throws a runtime error
\* in every other case; Sub and Mult throw a runtime error unless both
\* operands are Numbers; no method of an operand is called.
C21_Arithmetic ==
    [][ executed'.kind = "Arith" =>
          LET lhs == OperandValue(executed'.path[1])
              rhs == OperandValue(executed'.path[2])
              numbers == lhs.tag = "Number" /\ rhs.tag = "Number"
              evaluated == output' = output \o ArithLine(executed'.path[1])
                                            \o ArithLine(executed'.path[2])
          IN  /\ ~numbers => outcome' = "error" /\ evaluated
              /\ executed'.name = "Div" =>
                    IF numbers /\ rhs.num # 0
                    THEN /\ outcome' = "value"
                         /\ evaluated
                         /\ result'.tag = "Number"
                         /\ AbsLess(lhs.num - result'.num * rhs.num, rhs.num)
                    ELSE outcome' = "error" /\ evaluated
      ]_vars

(***************************************************************************)
(* ExpectSpec: the constructor, then NextToken, Expect and ExpectNext any  *)
(* number of times.                                                        *)
(***************************************************************************)
\* x / two spaces and x / 7 / x=7 / an empty line / one space and x
ExpectLines ==
    { <<"x">>, <<" ", " ", "x">>, <<"7">>, <<"x", "=", "7">>, <<>>, <<" ", "x">> }

\* the texts of at most two lines, the last one with or without its newline
\* character
ExpectTexts ==
    {<<>>} \cup ExpectLines
           \cup { l \o <<NL>> \o r : l \in ExpectLines, r \in ExpectLines }
           \cup { l \o <<NL>> \o r \o <<NL>> : l \in ExpectLines, r \in ExpectLines }

ExpectInit ==
    /\ src \in ExpectTexts
    /\ input_ = src
    /\ tokens_ = <<>>
    /\ cur_token_ = 0
    /\ cur_indent_ = 0
    /\ constructed = FALSE
    /\ op = "none"
    /\ status = "ok"
    /\ errmsg = ""
    /\ ret = Tok("none")
    /\ hist = <<>>
    /\ eof_returned = FALSE
    /\ thrown = FALSE
    /\ classes = <<>>
    /\ RuntimeInit

\* the T of Expect<T>() and the T and value of Expect<T>(value)
ExpectedTypes == {"Id", "Number", "Char", "Newline", "Eof"}
ExpectedTokens == {IdTok("x"), IdTok("y"), NumberTok(7), NumberTok(0), CharTok("=")}

\* Token::Is<T>
Is(token, T) == token.type = T

\* Is<T>() and As<T>().value == value, the value of a Number being its int
HasValue(token, expected) ==
    /\ Is(token, expected.type)
    /\ IF expected.type = "Number" THEN token.num = expected.num
       ELSE token.str = expected.str

\* Lexer::NextToken on the lexer as it is
NextTokenOutcome ==
    IF cur_token_ = Len(tokens_) - 1
    THEN ParseLine(tokens_, cur_token_, cur_indent_, input_, <<>>)
    ELSE [tokens |-> tokens_, cur |-> cur_token_ + 1, indent |-> cur_indent_,
          input |-> input_, status |-> "ok", msg |-> "", lines |-> <<>>]

\* an ExpectNext that tests the token the cursor was on before the call
TokenBeforeNext(r) == CurrentToken(tokens_, cur_token_)

\* the token ExpectNext tests: the one NextToken returned (r is the outcome
\* of NextToken)
TokenTested(r) == CurrentToken(r.tokens, r.cur)

Expected(type, token) ==
    [NotExecuted EXCEPT !.kind = "Expect", !.name = type, !.leaf = token.str,
                        !.index = token.num]

\* the end of Expect and ExpectNext: good tells whether the test passed,
\* msg is what the LexerError says otherwise
Tested(good, token, msg) ==
    /\ status' = IF good THEN "ok" ELSE "LexerError"
    /\ errmsg' = IF good THEN "" ELSE msg
    /\ ret' = IF good THEN token ELSE Tok("none")
    /\ thrown' = (thrown \/ ~good)
    /\ eof_returned' = (eof_returned \/ (good /\ token.type = "Eof"))

\* Lexer::Expect<T>()
LexerExpect ==
    /\ constructed
    /\ \E T \in ExpectedTypes :
         /\ op' = "Expect"
         /\ executed' = Expected(T, Tok(T))
         /\ Tested(Is(CurrentToken(tokens_, cur_token_), T),
                   CurrentToken(tokens_, cur_token_), "Wrong current token type")
    /\ UNCHANGED <<src, input_, tokens_, cur_token_, cur_indent_, constructed, hist>>
    /\ UNCHANGED <<classes, query, heap, globals, output, next_id, result, outcome, what,
                   steps, unowned_self>>

\* Lexer::Expect<T>(value)
LexerExpectValue ==
    /\ constructed
    /\ \E expected \in ExpectedTokens :
         /\ op' = "ExpectValue"
         /\ executed' = Expected(expected.type, expected)
         /\ Tested(HasValue(CurrentToken(tokens_, cur_token_), expected),
                   Tok("none"), "Wrong current token value")
    /\ UNCHANGED <<src, input_, tokens_, cur_token_, cur_indent_, constructed, hist>>
    /\ UNCHANGED <<classes, query, heap, globals, output, next_id, result, outcome, what,
                   steps, unowned_self>>

\* ExpectNext after NextToken ended as r without an exception
Advanced(r) ==
    /\ tokens_' = r.tokens
    /\ cur_token_' = r.cur
    /\ cur_indent_' = r.indent
    /\ input_' = r.input
    /\ hist' = hist \o r.lines

\* ExpectNext once NextToken ended as r: good tells whether the token it
\* returned passes the test
NextTested(r, good, token, msg) ==
    IF r.status # "ok" THEN ApplyParseLine(r)
    ELSE Advanced(r) /\ Tested(good, token, msg)

\* Lexer::ExpectNext<T>()
LexerExpectNext ==
    /\ constructed
    /\ EofCount(tokens_) < MaxEofs
    /\ \E r \in {NextTokenOutcome}, T \in ExpectedTypes :
         /\ op' = "ExpectNext"
         /\ executed' = Expected(T, Tok(T))
         /\ NextTested(r, Is(TokenTested(r), T), CurrentToken(r.tokens, r.cur),
                       "Wrong next token type")
    /\ UNCHANGED <<src, constructed>>
    /\ UNCHANGED <<classes, query, heap, globals, output, next_id, result, outcome, what,
                   steps, unowned_self>>

\* Lexer::ExpectNext<T>(value)
LexerExpectNextValue ==
    /\ constructed
    /\ EofCount(tokens_) < MaxEofs
    /\ \E r \in {NextTokenOutcome}, expected \in ExpectedTokens :
         /\ op' = "ExpectNextValue"
         /\ executed' = Expected(expected.type, expected)
         /\ NextTested(r, HasValue(TokenTested(r), expected), Tok("none"),
                       "Wrong next token value")
    /\ UNCHANGED <<src, constructed>>
    /\ UNCHANGED <<classes, query, heap, globals, output, next_id, result, outcome, what,
                   steps, unowned_self>>

ExpectSpecNext ==
    \/ LexerCtor
    \/ NextTokenParse
    \/ NextTokenBuffered
    \/ LexerExpect
    \/ LexerExpectValue
    \/ LexerExpectNext
    \/ LexerExpectNextValue

ExpectSpec == ExpectInit /\ [][ExpectSpecNext]_vars

\* the token has the type asked for and, when a value was asked for, the
\* value
Matches(token, valued, asked) ==
    /\ token.type = asked.name
    /\ valued =>
         IF asked.name = "Number" THEN token.num = asked.index ELSE token.str = asked.leaf

WrongNext == {"Wrong next token type", "Wrong next token value"}

\* C22: Expect<T>() and Expect<T>(value) succeed exactly when the current
\* token has type T (and the value), throw LexerError otherwise, and leave
\* the cursor and the buffer alone either way; ExpectNext moves the cursor
\* forward by one token as NextToken does and tests the token it is on
\* then, so the cursor has moved also when the test fails.
C22_Expect ==
    [][ /\ op' \in {"Expect", "ExpectValue"} =>
              /\ status' \in {"ok", "LexerError"}
              /\ (status' = "ok") = Matches(tokens_[cur_token_ + 1], op' = "ExpectValue",
                                            executed')
              /\ cur_token_' = cur_token_
              /\ tokens_' = tokens_
        /\ (op' \in {"ExpectNext", "ExpectNextValue"}
              /\ (status' = "ok" \/ errmsg' \in WrongNext)) =>
              /\ status' \in {"ok", "LexerError"}
              /\ cur_token_' = cur_token_ + 1
              /\ cur_token_' < Len(tokens_')
              /\ SubSeq(tokens_', 1, Len(tokens_)) = tokens_
              /\ (status' = "ok") = Matches(tokens_'[cur_token_' + 1],
                                            op' = "ExpectNextValue", executed')
      ]_vars

\* an ExpectNext<Id>() has thrown with the cursor moved to a Newline
C22_Witness ==
    /\ op = "ExpectNext"
    /\ executed.name = "Id"
    /\ status = "LexerError"
    /\ errmsg = "Wrong next token type"
    /\ cur_token_ = 1
    /\ tokens_[2].type = "Newline"

\* C23: once the constructor has returned, and after every NextToken and
\* ExpectNext, the buffer holds a token and the cursor is on a token of the
\* buffer, so the assertion of CurrentToken holds.
C23_CursorInBuffer ==
    constructed => (tokens_ # <<>> /\ cur_token_ \in 0..(Len(tokens_) - 1))

\* an ExpectNext that read a second line has left the cursor on the first
\* token of that line
C23_Witness ==
    /\ constructed
    /\ op = "ExpectNext"
    /\ status = "ok"
    /\ Len(hist) = 2
    /\ cur_token_ = 2
    /\ Len(tokens_) = 4

(***************************************************************************)
(* AliasSpec: assignments of an instance to a second name, and field       *)
(* assignments through that name.                                          *)
(***************************************************************************)
\* x = Base()
\* o = Base()
TwoNames ==
    Compound(<<Assignment("x", NewInstance(1, <<>>)), Assignment("o", NewInstance(1, <<>>))>>)

AliasInit == ProgramInit(ProgramClasses, TwoNames)

\* the values assigned to the field: a Number, a String, None, an instance
FieldValues == {"one", "s", "none", "o"}

\* y = x / y = o / y.v = <value> / y.set(<value>), where set is 'self.v = v'
StepAlias ==
    /\ CanStep
    /\ \/ \E from \in {"x", "o"} :
            Finished(Execute(Assignment("y", VariableValue(from)), globals, Ready),
                     [NotExecuted EXCEPT !.kind = "Alias", !.name = "assign", !.leaf = from])
       \/ \E value \in FieldValues :
            \/ Finished(Execute(FieldAssignment(VariableValue("y"), "v", VariableValue(value)),
                                globals, Ready),
                        [NotExecuted EXCEPT !.kind = "Alias", !.name = "field",
                                            !.leaf = value])
            \/ Finished(Execute(MethodCall(VariableValue("y"), "set",
                                           <<VariableValue(value)>>),
                                globals, Ready),
                        [NotExecuted EXCEPT !.kind = "Alias", !.name = "set", !.leaf = value])
    /\ UNCHANGED <<lexvars, classes, query>>

AliasNext == StepAlias

AliasSpec == AliasInit /\ [][AliasNext]_vars

\* two holders hold the same object
SameObject(g, h) == g.tag = h.tag /\ g.num = h.num /\ g.str = h.str /\ g.ref = h.ref

\* the fields of every instance but i are what they were
OtherFieldsKept(i) ==
    /\ Len(heap') = Len(heap)
    /\ \A j \in 1..Len(heap) : j # i => heap'[j].fields = heap[j].fields

\* C25: y = x binds y to the instance x holds and makes no copy of it; a
\* field assigned through y, by y.v = ... or by self.v = ... in a method
\* called on y, is the field read through every name of that instance, and
\* the assignment changes no field of another instance and no binding of
\* the scope.
C25_Aliasing ==
    [][ executed'.kind = "Alias" =>
          /\ executed'.name = "assign" =>
                /\ outcome' = "value"
                /\ SameObject(globals'["y"], globals[executed'.leaf])
                /\ OtherFieldsKept(0)
                /\ \A k \in DOMAIN globals : k # "y" => globals'[k] = globals[k]
          /\ (executed'.name \in {"field", "set"} /\ Bound(globals, "y")) =>
                /\ outcome' = "value"
                /\ \A k \in {"x", "o", "y"} :
                      (Bound(globals, k) /\ globals[k].ref = globals["y"].ref) =>
                          /\ Bound(globals', k)
                          /\ Bound(heap'[globals'[k].ref].fields, "v")
                          /\ SameObject(heap'[globals'[k].ref].fields["v"],
                                        globals[executed'.leaf])
                /\ OtherFieldsKept(globals["y"].ref)
                /\ globals' = globals
      ]_vars

\* after y = x and y.set(one), the field v read through x is the Number 1,
\* and o has no field
C25_Witness ==
    /\ executed.kind = "Alias"
    /\ executed.name = "set"
    /\ executed.leaf = "one"
    /\ Bound(globals, "y")
    /\ globals["y"].ref = globals["x"].ref
    /\ heap[globals["x"].ref].fields = Bind(EmptyClosure, "v", NumberHolder(1))
    /\ heap[globals["o"].ref].fields = EmptyClosure

====
